---- MODULE Spec2Model ----
(***************************************************************************)
(* Model of the AIH attendance system: the relational schema (the two      *)
(* attendance tables and their UNIQUE constraints, users and students),    *)
(* the student page of the fingerprint version of the frontend with its    *)
(* timers (live list, debounced name lookup, countdown), the controller    *)
(* pages, the two-stage browser getAccurateLocation of the earlier         *)
(* frontend, and getDeviceFingerprint.                                     *)
(***************************************************************************)
EXTENDS Integers, Sequences, FiniteSets, Bags, TLC

\* ---------------------------------------------------------------------------
\* Bounds of the model
\* ---------------------------------------------------------------------------
\* Sessions ever created.
MaxSessions == 2
\* Rows of students.
MaxStudents == 2
\* Rows one attendance table holds at a time.
MaxRows == 2
\* Pending hide timers of the status message.
MaxTimers == 1
\* Clicks on the retry button after one submit.
MaxRetry == 2
\* Loads of the manager list per page load, and toggle requests outliving a list.
MaxFetches == 1
\* Students the manager modal lists.
MaxListed == 1
\* Submissions recorded.
MaxPosts == 2
\* Accuracies considered on either side of the threshold, in metres.
AccMargin == 4

\* SQL NULL: session_id and student_id are declared without NOT NULL.
NULL == 0

StudentIds == 1..MaxStudents

\* The keys an INSERT may carry.
SessionKeys == {NULL} \cup (1..MaxSessions)
StudentKeys == {NULL} \cup StudentIds
Fingerprints == {"fpA", "fpB"}
Dates == {"d1", "d2"}

VARIABLES
    \* --- the database
    sessions,      \* ids of the rows of attendance_sessions
    sessSeq,       \* last value of attendance_sessions_id_seq
    students,      \* ids of the rows of students
    records,       \* rows of attendance_records, as a bag: the id column only
                   \* tells apart rows that agree in the other columns
    fps,           \* rows of session_device_fingerprints, as a bag
    dbLast,        \* the last statement and how it ended; for an INSERT also what
                   \* the table held before it (pair: a row of the same session
                   \* and student; device: a row of the same session and
                   \* fingerprint for another student; clear: session and student
                   \* exist and the session has no row of the student or of the
                   \* fingerprint) and whether the table changed
    \* --- every page
    bodyModalOpen,  \* document.body has the class modal-open
    page,           \* which page DOMContentLoaded initialised; "student_v1" and
                    \* "student_v2" are the student page of the two earlier frontends
    statusVisible,  \* status-message is displayed
    statusMsg,      \* the message last written to status-message
    hideTimers,     \* pending 6 s timeouts of showStatusMessage
    last,           \* the last step: its trigger, event, requests sent, message shown
    \* --- the student page
    pc,             \* where the running attendance handler awaits
    path,           \* the handler that runs: the submit ("gps") or the retry ("google")
    markDisabled,   \* markButton.disabled
    spinner,        \* spinner.style.display = 'inline-block'
    markText,       \* text of the span of the mark button
    formVisible,    \* attendanceForm.style.display is not 'none'
    tipsVisible,    \* troubleshooting-tips is displayed
    wifiModalOpen,  \* wifi-prompt-modal is displayed
    geoSupported,   \* navigator.geolocation exists
    apiKey,         \* window.GOOGLE_MAPS_API_KEY
    nGps,           \* browser position requests since the last form submit
    nGoogle,        \* Google geolocation requests since the last form submit
    nRetry,         \* clicks on retry-with-google-btn since the last form submit
    hist,           \* 'retry_high_accuracy' replies since the last form submit; location
                    \* requests and POSTs since the last form submit or retry click,
                    \* the position the handler got and the form data it posted;
                    \* whether a handler started while another was running, whether
                    \* the server confirmed a mark and whether a POST followed that
    \* --- the controller dashboard and the report page
    sessionActive,  \* the dashboard was rendered with an active session
    startDisabled,  \* startButton.disabled
    startText,      \* startButton.textContent
    startInFlight,  \* POST /api/start_session awaits its reply
    endDisabled,    \* endButton.disabled
    endInFlight,    \* POST /api/end_session awaits its reply
    mgr,            \* content of the manager modal's student list container
    mgrOpen,        \* manager-modal is displayed
    mgrFetches,     \* GET requests of setupManagerModal awaiting their reply
    btnPresent,     \* per listed student: the toggle button has class is-present
    btnDisabled,    \* per listed student: the toggle button is disabled
    tgInFlight,     \* per listed student: the toggle request awaiting its reply
    tgDetached,     \* toggle requests in flight whose button has left the document
    rows,           \* dates that have a row in the report table
    dateToDelete,   \* dateToDelete of initReportPage
    delModalOpen,   \* confirm-delete-modal is displayed
    delDisabled,    \* confirmDeleteBtn.disabled
    delInFlight,    \* DELETE /api/delete_day awaits its reply
    deletedDays,    \* the server: the days whose records it has deleted
    \* --- the two-stage browser location of the earlier frontend
    locPc,          \* where getAccurateLocation stands
    firstAcc,       \* accuracy of the low-accuracy fix
    watchOn,        \* a watchPosition watch is registered
    delivered,      \* the position handed to successCallback
    locError,       \* the message handed to errorCallback
    legacyDisabled, \* markButton.disabled on the earlier student page
    legacyForm,     \* the earlier attendance form is displayed
    calls,          \* whether getAccurateLocation was called, and how often its last
                    \* call has invoked successCallback and errorCallback
    \* --- getDeviceFingerprint
    env,            \* the navigator / screen / Date properties the browser reports
    enrollment,     \* enrollmentInput.value
    sessionId,      \* window.activeSessionDataStudent.id
    posted,         \* the form data of the POST requests sent so far
    \* --- the timers of the student page
    now,            \* milliseconds since DOMContentLoaded
    unloaded,       \* the document has been replaced, its timers are gone
    pollOn,         \* the 10 s interval of initStudentPage is registered
    pollDue,        \* when that interval fires next
    pollFetches,    \* GET /api/get_present_students requests awaiting their reply,
                    \* each named by its place in the order of sending
    presentList,    \* innerHTML of present-students-list
    pollLast,       \* fetches started so far; the last reply and the list before it;
                    \* the fetch whose reply is displayed; the latest fetch answered
                    \* with a list
    inputValue,     \* enrollmentInput.value
    pending,        \* due times of the timeouts debounce has set and not cleared
    timeout,        \* the variable timeout of debounce: the timeout it set last
    lookups,        \* enrollment numbers of the GET /api/get_student_name requests
                    \* awaiting their reply, as a bag
    displayOf,      \* the enrollment number whose lookup result nameDisplay shows
    nameDisplay,    \* textContent of student-name-display
    burst,          \* the input events less than the delay apart: whether there were
                    \* several, the time of the last, the callbacks and lookups they caused
    endTime,        \* endTime of startRobustTimer
    timerOn,        \* timerInterval is registered
    timerDue,       \* when timerInterval fires next
    timerText,      \* timerElement.textContent
    formInDocument, \* attendance-form is in the document
    expiry,         \* ticks that found remaining <= 0, reloads requested, whether
                    \* the timer wrote the text after the first such tick, the
                    \* callbacks that have run and the clock at the last of them
    \* --- the tables users, students and classes
    users,          \* rows of users, as a bag of (username, role)
    studentRows,    \* rows of students, as a bag of (enrollment_no, name, batch)
    classRows,      \* rows of classes, as a bag; controller_id is given by the
                    \* username of the row of users it refers to
    setupLast,      \* the last statement against the tables and how it ended
    \* --- the manager modal of the report page, element by element
    title,          \* the date modal-title and modal-subtitle are written for
    modalOn,        \* manager-modal is displayed
    container,      \* student-list-container: its content, the config its buttons
                    \* close over, and per student the toggle button
    oninput,        \* searchInput.oninput: the config and data.students it closes over
    listReqs,       \* fetch(config.fetchUrl) calls awaiting their reply, as a bag of dates
    toggleReqs,     \* toggle requests awaiting their reply, as a bag
    attendance,     \* the server: per date and student, whether the student is present
    toggleLast,     \* the toggle reply just handled: the button after it, and
                    \* whether it kept its classes and label
    inputs,         \* clicks and search inputs in the modal so far
    \* --- the status message against the clock
    hideDue,        \* when the timeouts of showStatusMessage fire
    shownAt,        \* when the message on display was shown
    hideLast        \* the last timeout that fired: whether it hid a message, and how
                    \* long that message had been on display

dbVars == <<sessions, sessSeq, students, records, fps, dbLast>>
statusVars == <<statusVisible, statusMsg, hideTimers>>
studentVars == <<pc, path, markDisabled, spinner, markText, formVisible, tipsVisible,
                 wifiModalOpen, geoSupported, apiKey, nGps, nGoogle, nRetry, hist>>
dashVars == <<sessionActive, startDisabled, startText, startInFlight, endDisabled, endInFlight>>
mgrVars == <<mgr, mgrOpen, mgrFetches, btnPresent, btnDisabled, tgInFlight, tgDetached>>
reportVars == <<rows, dateToDelete, delModalOpen, delDisabled, delInFlight, deletedDays>>
legacyVars == <<locPc, firstAcc, watchOn, delivered, locError, legacyDisabled, legacyForm,
               calls>>
fpVars == <<env, enrollment, sessionId, posted>>
uiVars == <<page, bodyModalOpen, statusVars, last, studentVars, dashVars, mgrVars, reportVars>>
pollVars == <<pollOn, pollDue, pollFetches, presentList, pollLast>>
lookupVars == <<inputValue, pending, timeout, lookups, nameDisplay, displayOf, burst>>
countdownVars == <<endTime, timerOn, timerDue, timerText, formInDocument, expiry>>
timedVars == <<now, unloaded, pollVars, lookupVars, countdownVars>>
setupVars == <<users, studentRows, classRows, setupLast>>

modalVars == <<title, modalOn, container, oninput, listReqs, toggleReqs, attendance,
              toggleLast, inputs>>
toastVars == <<hideDue, shownAt, hideLast>>
detailVars == <<modalVars, toastVars>>
vars == <<dbVars, uiVars, legacyVars, fpVars, timedVars, setupVars, detailVars>>

\* What the operations of one part leave alone.
notDb == <<uiVars, legacyVars, fpVars,
    timedVars, setupVars, detailVars>>
notStatus == <<dbVars, page, bodyModalOpen, studentVars, dashVars, mgrVars, reportVars, legacyVars, fpVars,
    timedVars, setupVars, detailVars>>
notStudent == <<dbVars, page, dashVars, mgrVars, reportVars, legacyVars, fpVars,
    timedVars, setupVars, detailVars>>
notDash == <<dbVars, page, bodyModalOpen, studentVars, mgrVars, reportVars, legacyVars, fpVars,
    timedVars, setupVars, detailVars>>
notMgr == <<dbVars, page, studentVars, dashVars, reportVars, legacyVars, fpVars,
    timedVars, setupVars, detailVars>>
notReport == <<dbVars, page, studentVars, dashVars, mgrVars, legacyVars, fpVars,
    timedVars, setupVars, detailVars>>
notLegacy == <<dbVars, page, bodyModalOpen, studentVars, dashVars, mgrVars, reportVars, fpVars,
    timedVars, setupVars, detailVars>>
notFp == <<dbVars, uiVars, legacyVars,
    timedVars, setupVars, detailVars>>
notTimed == <<dbVars, uiVars, legacyVars, fpVars, setupVars, detailVars>>
notSetup == <<dbVars, uiVars, legacyVars, fpVars, timedVars, detailVars>>
notModal == <<dbVars, page, bodyModalOpen, studentVars, dashVars, mgrVars, reportVars, legacyVars, fpVars,
    timedVars, setupVars, toastVars>>
notToast == <<dbVars, page, bodyModalOpen, last, studentVars, dashVars, mgrVars, reportVars, legacyVars, fpVars,
    setupVars, modalVars>>

\* ---------------------------------------------------------------------------
\* The schema: attendance_records and session_device_fingerprints
\* ---------------------------------------------------------------------------

\* SQL equality: never true when an operand is NULL.
SqlEq(a, b) == a # NULL /\ b # NULL /\ a = b

\* REFERENCES t(id): a NULL reference is accepted, any other must exist.
FkOk(v, ids) == v = NULL \/ v \in ids

\* A table without the rows that refer to id in column col: what a cascading
\* delete leaves.
Cascade(table, col, id) == [r \in {x \in DOMAIN table : x[col] # id} |-> table[r]]

\* attendance_records declared without its UNIQUE clause.
RecordsUniqueOk_Dropped(s, st) ==
    s = s /\ st = st

\* session_device_fingerprints declared without UNIQUE (session_id, student_id).
FpStudentUniqueOk_Dropped(s, st) ==
    s = s /\ st = st

\* session_device_fingerprints declared without UNIQUE (session_id, fingerprint).
FpDeviceUniqueOk_Dropped(s, f) ==
    s = s /\ f = f

\* UNIQUE (session_id, student_id) of attendance_records, for a new row.
RecordsUniqueOk(s, st) ==
    ~ \E r \in DOMAIN records : SqlEq(r.session_id, s) /\ SqlEq(r.student_id, st)

\* UNIQUE (session_id, student_id) of session_device_fingerprints.
FpStudentUniqueOk(s, st) ==
    ~ \E r \in DOMAIN fps : SqlEq(r.session_id, s) /\ SqlEq(r.student_id, st)

\* UNIQUE (session_id, fingerprint) of session_device_fingerprints.
FpDeviceUniqueOk(s, f) ==
    ~ \E r \in DOMAIN fps : SqlEq(r.session_id, s) /\ r.fingerprint = f

\* What dbLast keeps of a statement that is no INSERT into the two tables.
Done(op, res) ==
    [op |-> op, res |-> res, pair |-> FALSE, device |-> FALSE, clear |-> FALSE,
     changed |-> FALSE]

DbInit ==
    /\ sessions = {}
    /\ sessSeq = 0
    /\ students = StudentIds
    /\ records = EmptyBag
    /\ fps = EmptyBag
    /\ dbLast = Done("none", "none")

\* INSERT INTO attendance_sessions: the SERIAL key is never reused.
InsertSession ==
    /\ sessSeq < MaxSessions
    /\ sessSeq' = sessSeq + 1
    /\ sessions' = sessions \cup {sessSeq + 1}
    /\ dbLast' = Done("insert_session", "ok")
    /\ UNCHANGED <<students, records, fps>>
    /\ UNCHANGED notDb

\* DELETE FROM attendance_sessions WHERE id = s: both tables reference it
\* ON DELETE CASCADE.
DeleteSession(s) ==
    /\ s \in sessions
    /\ sessions' = sessions \ {s}
    /\ records' = Cascade(records, "session_id", s)
    /\ fps' = Cascade(fps, "session_id", s)
    /\ dbLast' = Done("delete_session", "ok")
    /\ UNCHANGED <<sessSeq, students>>
    /\ UNCHANGED notDb

\* DELETE FROM students WHERE id = st: session_device_fingerprints cascades,
\* attendance_records (no ON DELETE clause) refuses while a row refers to st.
DeleteStudent(st) ==
    /\ st \in students
    /\ IF \E r \in DOMAIN records : r.student_id = st
       THEN /\ dbLast' = Done("delete_student", "fk_violation")
            /\ UNCHANGED <<students, fps>>
       ELSE /\ students' = students \ {st}
            /\ fps' = Cascade(fps, "student_id", st)
            /\ dbLast' = Done("delete_student", "ok")
    /\ UNCHANGED <<sessions, sessSeq, records>>
    /\ UNCHANGED notDb

\* INSERT INTO attendance_records (session_id, student_id, ...) VALUES (s, st, ...).
\* The unique index is probed when the row is written, the references are
\* checked at the end of the statement.
InsertRecord(s, st) ==
    LET res == IF ~ RecordsUniqueOk(s, st) THEN "unique_violation"
               ELSE IF ~ (FkOk(s, sessions) /\ FkOk(st, students)) THEN "fk_violation"
               ELSE "ok"
    IN  /\ res = "ok" => BagCardinality(records) < MaxRows
        /\ records' = IF res = "ok"
                      THEN records (+) SetToBag({[session_id |-> s, student_id |-> st]})
                      ELSE records
        /\ dbLast' =
              [op |-> "insert_record",
               res |-> res,
               pair |-> /\ s # NULL /\ st # NULL
                        /\ \E r \in DOMAIN records : r.session_id = s /\ r.student_id = st,
               device |-> FALSE,
               clear |-> /\ s \in sessions /\ st \in students
                         /\ \A r \in DOMAIN records : r.session_id # s \/ r.student_id # st,
               changed |-> records' # records]
        /\ UNCHANGED <<sessions, sessSeq, students, fps>>
        /\ UNCHANGED notDb

\* DELETE FROM attendance_records WHERE id = the id of one row like r.
DeleteRecord(r) ==
    /\ BagIn(r, records)
    /\ records' = records (-) SetToBag({r})
    /\ dbLast' = Done("delete_record", "ok")
    /\ UNCHANGED <<sessions, sessSeq, students, fps>>
    /\ UNCHANGED notDb

\* INSERT INTO session_device_fingerprints (session_id, student_id, fingerprint).
\* The two unique indexes are probed in the order of their declaration.
InsertFingerprint(s, st, f) ==
    LET res == IF ~ FpStudentUniqueOk(s, st) THEN "unique_violation_student"
               ELSE IF ~ FpDeviceUniqueOk(s, f) THEN "unique_violation_fingerprint"
               ELSE IF ~ (FkOk(s, sessions) /\ FkOk(st, students)) THEN "fk_violation"
               ELSE "ok"
    IN  /\ res = "ok" => BagCardinality(fps) < MaxRows
        /\ fps' = IF res = "ok"
                  THEN fps (+) SetToBag({[session_id |-> s, student_id |-> st,
                                          fingerprint |-> f]})
                  ELSE fps
        /\ dbLast' =
              [op |-> "insert_fp",
               res |-> res,
               pair |-> /\ s # NULL /\ st # NULL
                        /\ \E r \in DOMAIN fps : r.session_id = s /\ r.student_id = st,
               device |-> /\ s # NULL
                          /\ \E r \in DOMAIN fps : /\ r.session_id = s
                                                   /\ r.fingerprint = f
                                                   /\ r.student_id # st,
               clear |-> /\ s \in sessions /\ st \in students
                         /\ \A r \in DOMAIN fps :
                               r.session_id = s => (r.student_id # st /\ r.fingerprint # f),
               changed |-> fps' # fps]
        /\ UNCHANGED <<sessions, sessSeq, students, records>>
        /\ UNCHANGED notDb

\* DELETE FROM session_device_fingerprints WHERE id = the id of one row like r.
DeleteFingerprint(r) ==
    /\ BagIn(r, fps)
    /\ fps' = fps (-) SetToBag({r})
    /\ dbLast' = Done("delete_fp", "ok")
    /\ UNCHANGED <<sessions, sessSeq, students, records>>
    /\ UNCHANGED notDb

\* ---------------------------------------------------------------------------
\* The student page (fingerprint version of the frontend)
\* ---------------------------------------------------------------------------

GpsErrors == {"gps_denied", "gps_unavailable", "gps_timeout"}
GoogleErrors == {"google_network_error", "google_not_ok", "google_bad_json",
                 "google_no_location"}
PostReplies == {"post_success", "post_retry_high_accuracy", "post_rejected_away",
                "post_rejected", "post_network_error"}

Step(trig, ev, sent, shown) ==
    last' = [trig |-> trig, ev |-> ev, sent |-> sent, shown |-> shown]

\* showStatusMessage(message, type): write and display the message, start a
\* 6 s timeout that hides the element.
showStatusMessage(m) ==
    /\ hideTimers < MaxTimers
    /\ statusVisible' = TRUE
    /\ statusMsg' = m
    /\ hideTimers' = hideTimers + 1

\* openModal(modalElement): the element is displayed and document.body gets
\* the class modal-open.  The parameter stands for the display of an element
\* of the page; the class is added outside the test for the element.
openModal(modalElement) ==
    /\ modalElement' = TRUE
    /\ bodyModalOpen' = TRUE

\* closeModal(modalElement): the element is hidden and document.body loses
\* the class, whatever else is displayed.
closeModal(modalElement) ==
    /\ modalElement' = FALSE
    /\ bodyModalOpen' = FALSE

\* The timeout of showStatusMessage fires.
HideStatus ==
    /\ hideTimers > 0
    /\ hideTimers' = hideTimers - 1
    /\ statusVisible' = FALSE
    /\ Step("timer", "hide_status", {}, "none")
    /\ UNCHANGED statusMsg
    /\ UNCHANGED notStatus

resetSubmitButton ==
    /\ markDisabled' = FALSE
    /\ spinner' = FALSE
    /\ markText' = "Mark My Attendance"

\* No position, no form data.
NoFix == [src |-> "none", latitude |-> 0, longitude |-> 0]
NoForm == [latitude |-> 0, longitude |-> 0, location_method |-> "none"]

\* No reply of the Google geolocation API has been seen.
NoReply == [fetch |-> "none", ok |-> FALSE, hasLocation |-> FALSE, hasAccuracy |-> FALSE]

\* Nothing has been attempted on the page.
NoAttempt ==
    [retryReply |-> 0, actLoc |-> 0, actPost |-> 0, position |-> NoFix, posted |-> NoForm,
     overlap |-> FALSE, confirmed |-> FALSE, postAfter |-> FALSE, reply |-> NoReply]

StudentInit ==
    /\ pc = "idle"
    /\ path = "none"
    /\ markDisabled = FALSE
    /\ spinner = FALSE
    /\ markText = "Mark My Attendance"
    /\ formVisible = TRUE
    /\ tipsVisible = FALSE
    /\ wifiModalOpen = FALSE
    /\ geoSupported \in BOOLEAN
    /\ apiKey \in {"missing", "placeholder", "set"}
    /\ nGps = 0
    /\ nGoogle = 0
    /\ nRetry = 0
    /\ hist = NoAttempt

StatusInit ==
    /\ statusVisible = FALSE
    /\ statusMsg = "none"
    /\ hideTimers = 0
    /\ last = [trig |-> "init", ev |-> "load", sent |-> {}, shown |-> "none"]

\* A catch (gpsError) that shows the message and resets the button instead of
\* opening the prompt modal.
CatchGps_Resets(trig, ev) ==
    /\ showStatusMessage("gps_failed")
    /\ resetSubmitButton
    /\ pc' = "idle"
    /\ Step(trig, ev, {}, "gps_failed")
    /\ UNCHANGED <<formVisible, tipsVisible, wifiModalOpen, bodyModalOpen>>

\* A catch (gpsError) that falls back to the Google API by itself.
CatchGps_AutoFallback(trig, ev) ==
    /\ showStatusMessage("gps_failed")
    /\ pc' = "google"
    /\ Step(trig, ev, {"Google geolocate"}, "gps_failed")
    /\ UNCHANGED <<markDisabled, spinner, markText, formVisible, tipsVisible, wifiModalOpen, bodyModalOpen>>

\* catch (gpsError) of the submit handler.
CatchGps(trig, ev) ==
    /\ showStatusMessage("gps_failed")
    /\ openModal(wifiModalOpen)
    /\ pc' = "idle"
    /\ Step(trig, ev, {}, "gps_failed")
    /\ UNCHANGED <<markDisabled, spinner, markText, formVisible, tipsVisible>>

\* catch (googleError) of the retry handler.
CatchGoogle(trig, ev) ==
    /\ showStatusMessage("advanced_failed")
    /\ tipsVisible' = TRUE
    /\ resetSubmitButton
    /\ pc' = "idle"
    /\ Step(trig, ev, {}, "advanced_failed")
    /\ UNCHANGED <<formVisible, wifiModalOpen, bodyModalOpen>>

\* An exception inside handleAttendanceSubmission reaches the catch of the
\* handler that called it.
CatchOfPath(ev) ==
    IF path = "gps" THEN CatchGps("reply", ev) ELSE CatchGoogle("reply", ev)

\* A submit listener that leaves the mark button enabled.
Submit_KeepsEnabled ==
    /\ page = "student"
    /\ formVisible /\ ~markDisabled
    /\ geoSupported
    /\ spinner' = TRUE
    /\ markText' = "Getting GPS Location..."
    /\ tipsVisible' = FALSE
    /\ path' = "gps"
    /\ pc' = "gps"
    /\ nGps' = 1
    /\ nGoogle' = 0
    /\ nRetry' = 0
    /\ hist' = [NoAttempt EXCEPT !.actLoc = 1,
                                 !.overlap = hist.overlap \/ pc # "idle",
                                 !.confirmed = hist.confirmed,
                                 !.postAfter = hist.postAfter]
    /\ Step("user", "submit", {"GPS"}, "none")
    /\ UNCHANGED <<markDisabled, formVisible, wifiModalOpen, bodyModalOpen, geoSupported, apiKey>>
    /\ UNCHANGED statusVars
    /\ UNCHANGED notStudent

\* The submit listener of attendance-form, up to its first await.  A form
\* whose submit button is disabled is not submitted.
Submit ==
    /\ page = "student"
    /\ formVisible /\ ~markDisabled
    /\ markDisabled' = TRUE
    /\ spinner' = TRUE
    /\ markText' = "Getting GPS Location..."
    /\ tipsVisible' = FALSE
    /\ path' = "gps"
    /\ nGoogle' = 0
    /\ nRetry' = 0
    /\ hist' = [NoAttempt EXCEPT !.actLoc = IF geoSupported THEN 1 ELSE 0,
                                 !.overlap = hist.overlap \/ pc # "idle",
                                 !.confirmed = hist.confirmed,
                                 !.postAfter = hist.postAfter]
    /\ IF geoSupported
       THEN /\ pc' = "gps"
            /\ nGps' = 1
            /\ Step("user", "submit", {"GPS"}, "none")
            /\ UNCHANGED <<wifiModalOpen, bodyModalOpen, statusVisible, statusMsg, hideTimers>>
       ELSE /\ nGps' = 0
            /\ showStatusMessage("gps_failed")
            /\ openModal(wifiModalOpen)
            /\ pc' = "idle"
            /\ Step("user", "gps_unsupported", {}, "gps_failed")
    /\ UNCHANGED <<formVisible, geoSupported, apiKey>>
    /\ UNCHANGED notStudent

\* getCurrentPosition calls its success callback: handleAttendanceSubmission
\* starts and awaits getDeviceFingerprint.
GpsOk(p) ==
    /\ page = "student" /\ pc = "gps"
    /\ pc' = "fp"
    /\ hist' = [hist EXCEPT !.position = [src |-> "browser", latitude |-> p.latitude,
                                          longitude |-> p.longitude]]
    /\ Step("reply", "gps_ok", {}, "none")
    /\ UNCHANGED <<path, markDisabled, spinner, markText, formVisible, tipsVisible,
                   wifiModalOpen, bodyModalOpen, geoSupported, apiKey, nGps, nGoogle, nRetry>>
    /\ UNCHANGED statusVars
    /\ UNCHANGED notStudent

\* getCurrentPosition calls its error callback: the promise is rejected.
GpsError(e) ==
    /\ page = "student" /\ pc = "gps"
    /\ CatchGps("reply", e)
    /\ UNCHANGED <<path, geoSupported, apiKey, nGps, nGoogle, nRetry, hist>>
    /\ UNCHANGED notStudent

\* A handleAttendanceSubmission that posts 'gps' whatever method it was given.
FingerprintOk_AlwaysGps ==
    /\ page = "student" /\ pc = "fp"
    /\ pc' = "post"
    /\ Step("reply", "fingerprint_ok", {"POST mark_attendance"}, "none")
    /\ hist' = [hist EXCEPT !.actPost = @ + 1,
                            !.posted = [latitude |-> hist.position.latitude,
                                        longitude |-> hist.position.longitude,
                                        location_method |-> "gps"],
                            !.postAfter = @ \/ hist.confirmed]
    /\ UNCHANGED <<path, markDisabled, spinner, markText, formVisible, tipsVisible,
                   wifiModalOpen, bodyModalOpen, geoSupported, apiKey, nGps, nGoogle, nRetry>>
    /\ UNCHANGED statusVars
    /\ UNCHANGED notStudent

\* getDeviceFingerprint resolves: the POST of the form data is sent.
FingerprintOk ==
    /\ page = "student" /\ pc = "fp"
    /\ pc' = "post"
    /\ Step("reply", "fingerprint_ok", {"POST mark_attendance"}, "none")
    /\ hist' = [hist EXCEPT !.actPost = @ + 1,
                            !.posted = [latitude |-> hist.position.latitude,
                                        longitude |-> hist.position.longitude,
                                        location_method |-> path],
                            !.postAfter = @ \/ hist.confirmed]
    /\ UNCHANGED <<path, markDisabled, spinner, markText, formVisible, tipsVisible,
                   wifiModalOpen, bodyModalOpen, geoSupported, apiKey, nGps, nGoogle, nRetry>>
    /\ UNCHANGED statusVars
    /\ UNCHANGED notStudent

\* getDeviceFingerprint rejects (crypto.subtle is missing or digest fails).
FingerprintError ==
    /\ page = "student" /\ pc = "fp"
    /\ CatchOfPath("fingerprint_error")
    /\ UNCHANGED <<path, geoSupported, apiKey, nGps, nGoogle, nRetry, hist>>
    /\ UNCHANGED notStudent

\* A reply handler that sends the POST again when its fetch was rejected.
PostReply_AutoRetry(r) ==
    /\ page = "student" /\ pc = "post"
    /\ IF r = "post_network_error"
       THEN /\ pc' = "post"
            /\ Step("reply", r, {"POST mark_attendance"}, "none")
            /\ hist' = [hist EXCEPT !.actPost = @ + 1]
            /\ UNCHANGED <<markDisabled, spinner, markText, formVisible, tipsVisible,
                           wifiModalOpen, bodyModalOpen>>
            /\ UNCHANGED statusVars
       ELSE /\ showStatusMessage("server")
            /\ resetSubmitButton
            /\ pc' = "idle"
            /\ Step("reply", r, {}, "server")
            /\ UNCHANGED <<formVisible, tipsVisible, wifiModalOpen, bodyModalOpen, hist>>
    /\ UNCHANGED <<path, geoSupported, apiKey, nGps, nGoogle, nRetry>>
    /\ UNCHANGED notStudent

\* A reply handler that, on success, resets the button and leaves the form.
PostReply_KeepsForm(r) ==
    /\ page = "student" /\ pc = "post"
    /\ showStatusMessage("server")
    /\ resetSubmitButton
    /\ pc' = "idle"
    /\ Step("reply", r, {}, "server")
    /\ hist' = IF r = "post_success" THEN [hist EXCEPT !.confirmed = TRUE] ELSE hist
    /\ UNCHANGED <<formVisible, tipsVisible, wifiModalOpen, bodyModalOpen>>
    /\ UNCHANGED <<path, geoSupported, apiKey, nGps, nGoogle, nRetry>>
    /\ UNCHANGED notStudent

\* The reply of POST /api/mark_attendance, or the rejection of the fetch.
PostReply(r) ==
    /\ page = "student" /\ pc = "post"
    /\ CASE r = "post_success" ->
              /\ showStatusMessage("server")
              /\ formVisible' = FALSE
              /\ pc' = "idle"
              /\ Step("reply", r, {"GET present"}, "server")
              /\ UNCHANGED <<markDisabled, spinner, markText, tipsVisible, wifiModalOpen, bodyModalOpen>>
         [] r = "post_retry_high_accuracy" ->
              /\ showStatusMessage("server")
              /\ openModal(wifiModalOpen)
              /\ pc' = "idle"
              /\ Step("reply", r, {}, "server")
              /\ UNCHANGED <<markDisabled, spinner, markText, formVisible, tipsVisible>>
         [] r \in {"post_rejected", "post_rejected_away"} ->
              /\ showStatusMessage("server")
              /\ resetSubmitButton
              /\ tipsVisible' = IF r = "post_rejected_away" THEN TRUE ELSE tipsVisible
              /\ pc' = "idle"
              /\ Step("reply", r, {}, "server")
              /\ UNCHANGED <<formVisible, wifiModalOpen, bodyModalOpen>>
         [] OTHER -> CatchOfPath(r)
    /\ hist' = CASE r = "post_retry_high_accuracy" -> [hist EXCEPT !.retryReply = @ + 1]
                 [] r = "post_success" -> [hist EXCEPT !.confirmed = TRUE]
                 [] OTHER -> hist
    /\ UNCHANGED <<path, geoSupported, apiKey, nGps, nGoogle, nRetry>>
    /\ UNCHANGED notStudent

\* The click listener of retry-with-google-btn, up to its first await.  The
\* button is part of the prompt modal.
RetryClick ==
    /\ page = "student"
    /\ wifiModalOpen
    /\ nRetry < MaxRetry
    /\ nRetry' = nRetry + 1
    /\ path' = "google"
    /\ hist' = [hist EXCEPT !.actLoc = IF apiKey = "set" THEN 1 ELSE 0, !.actPost = 0,
                            !.position = NoFix, !.posted = NoForm, !.reply = NoReply,
                            !.overlap = @ \/ pc # "idle"]
    /\ IF apiKey = "set"
       THEN /\ closeModal(wifiModalOpen)
            /\ markText' = "Getting Wi-Fi Location..."
            /\ pc' = "google"
            /\ nGoogle' = nGoogle + 1
            /\ Step("user", "retry_click", {"Google geolocate"}, "none")
            /\ UNCHANGED <<markDisabled, spinner, formVisible, tipsVisible>>
            /\ UNCHANGED statusVars
       ELSE /\ closeModal(wifiModalOpen)
            /\ showStatusMessage("advanced_failed")
            /\ tipsVisible' = TRUE
            /\ resetSubmitButton
            /\ pc' = "idle"
            /\ Step("user", "google_config_error", {}, "advanced_failed")
            /\ UNCHANGED <<formVisible, nGoogle>>
    /\ UNCHANGED <<geoSupported, apiKey, nGps>>
    /\ UNCHANGED notStudent

\* A member of the reply body that is missing reads as undefined.
Undefined == [lat |-> 0, lng |-> 0]

\* `data.location && data.accuracy`: an object is truthy, undefined and the
\* number 0 are not.
Truthy(body) ==
    /\ body.hasLocation
    /\ body.hasAccuracy /\ body.accuracy # 0

\* A getGoogleApiLocation that is content with a truthy accuracy.
getGoogleApiLocation_AccuracyOnly(reply) ==
    IF reply.fetch = "rejected" THEN [threw |-> "google_network_error", coords |-> Undefined]
    ELSE IF ~reply.ok THEN [threw |-> "google_not_ok", coords |-> Undefined]
    ELSE IF reply.fetch = "not_json" THEN [threw |-> "google_bad_json", coords |-> Undefined]
    ELSE IF reply.body.hasAccuracy /\ reply.body.accuracy # 0
         THEN [threw |-> "none", coords |-> reply.body.location]
         ELSE [threw |-> "google_no_location", coords |-> Undefined]

\* getGoogleApiLocation from the resolution of its fetch on: what it throws,
\* or the coordinates of the position it returns.
getGoogleApiLocation(reply) ==
    IF reply.fetch = "rejected" THEN [threw |-> "google_network_error", coords |-> Undefined]
    ELSE IF ~reply.ok THEN [threw |-> "google_not_ok", coords |-> Undefined]
    ELSE IF reply.fetch = "not_json" THEN [threw |-> "google_bad_json", coords |-> Undefined]
    ELSE IF Truthy(reply.body)
         THEN [threw |-> "none", coords |-> reply.body.location]
         ELSE [threw |-> "google_no_location", coords |-> Undefined]

\* The retry listener after its await of getGoogleApiLocation: the reply of
\* the Google geolocation API, or the rejection of the fetch.
GoogleReply(reply) ==
    /\ page = "student" /\ pc = "google"
    /\ LET res == getGoogleApiLocation(reply)
           seen == [fetch |-> reply.fetch, ok |-> reply.ok,
                    hasLocation |-> reply.body.hasLocation,
                    hasAccuracy |-> reply.body.hasAccuracy]
       IN IF res.threw = "none"
          THEN /\ pc' = "fp"
               /\ hist' = [hist EXCEPT !.reply = seen,
                                       !.position = [src |-> "google_api",
                                                     latitude |-> res.coords.lat,
                                                     longitude |-> res.coords.lng]]
               /\ Step("reply", "google_ok", {}, "none")
               /\ UNCHANGED <<markDisabled, spinner, markText, formVisible, tipsVisible,
                              wifiModalOpen, bodyModalOpen>>
               /\ UNCHANGED statusVars
          ELSE /\ CatchGoogle("reply", res.threw)
               /\ hist' = [hist EXCEPT !.reply = seen]
    /\ UNCHANGED <<path, geoSupported, apiKey, nGps, nGoogle, nRetry>>
    /\ UNCHANGED notStudent

\* A click on the close button of the prompt modal or on its backdrop.
DismissModal ==
    /\ page = "student"
    /\ wifiModalOpen
    /\ closeModal(wifiModalOpen)
    /\ Step("user", "modal_dismissed", {}, "none")
    /\ UNCHANGED <<pc, path, markDisabled, spinner, markText, formVisible, tipsVisible,
                   geoSupported, apiKey, nGps, nGoogle, nRetry, hist>>
    /\ UNCHANGED statusVars
    /\ UNCHANGED notStudent

\* The 10 s interval of the present-student list fires.
PollTick ==
    /\ page = "student"
    /\ Step("timer", "poll", {"GET present"}, "none")
    /\ UNCHANGED <<studentVars, bodyModalOpen>>
    /\ UNCHANGED statusVars
    /\ UNCHANGED notStudent

\* ---------------------------------------------------------------------------
\* The controller dashboard
\* ---------------------------------------------------------------------------

\* The students the manager modal lists.
Listed == 1..MaxListed

AllFalse == [st \in Listed |-> FALSE]
NoToggle == [st \in Listed |-> "none"]

DashInit ==
    /\ sessionActive \in BOOLEAN
    /\ startDisabled = FALSE
    /\ startText = "Start New Session"
    /\ startInFlight = FALSE
    /\ endDisabled = FALSE
    /\ endInFlight = FALSE

MgrInit ==
    /\ mgr = "empty"
    /\ mgrOpen = FALSE
    /\ mgrFetches = 0
    /\ btnPresent = AllFalse
    /\ btnDisabled = AllFalse
    /\ tgInFlight = NoToggle
    /\ tgDetached = 0

\* window.location.reload() on the dashboard: the document is rendered anew
\* and the requests of the old document are abandoned.
Reload(active) ==
    /\ sessionActive' = active
    /\ startDisabled' = FALSE
    /\ startText' = "Start New Session"
    /\ startInFlight' = FALSE
    /\ endDisabled' = FALSE
    /\ endInFlight' = FALSE
    /\ mgr' = "empty"
    /\ mgrOpen' = FALSE
    /\ bodyModalOpen' = FALSE
    /\ mgrFetches' = 0
    /\ btnPresent' = AllFalse
    /\ btnDisabled' = AllFalse
    /\ tgInFlight' = NoToggle
    /\ tgDetached' = 0
    /\ statusVisible' = FALSE
    /\ statusMsg' = "none"
    /\ hideTimers' = 0

\* A modal covers the page: the page's own buttons are reached only while
\* no modal is displayed.
NoModal == ~mgrOpen /\ ~delModalOpen /\ ~wifiModalOpen

\* The click listener of start-session-btn, up to its await.
StartClick ==
    /\ page = "dashboard" /\ ~sessionActive
    /\ NoModal /\ ~startDisabled
    /\ startDisabled' = TRUE
    /\ startText' = "Starting Session..."
    /\ startInFlight' = TRUE
    /\ Step("user", "start_click", {"POST start_session"}, "none")
    /\ UNCHANGED <<sessionActive, endDisabled, endInFlight>>
    /\ UNCHANGED statusVars
    /\ UNCHANGED notDash

\* The reply of POST /api/start_session, or the rejection of the fetch, which
\* no handler catches.
StartReply(r) ==
    /\ page = "dashboard" /\ startInFlight
    /\ CASE r = "start_success" ->
              /\ Reload(TRUE)
              /\ Step("reply", r, {"reload"}, "none")
              /\ UNCHANGED <<dbVars, page, studentVars, reportVars, legacyVars, fpVars, timedVars, setupVars, detailVars>>
         [] r = "start_rejected" ->
              /\ showStatusMessage("server")
              /\ startDisabled' = FALSE
              /\ startText' = "Start New Session"
              /\ startInFlight' = FALSE
              /\ Step("reply", r, {}, "server")
              /\ UNCHANGED <<sessionActive, endDisabled, endInFlight>>
              /\ UNCHANGED notDash
         [] OTHER ->
              /\ startInFlight' = FALSE
              /\ Step("reply", r, {}, "none")
              /\ UNCHANGED <<sessionActive, startDisabled, startText, endDisabled, endInFlight>>
              /\ UNCHANGED statusVars
              /\ UNCHANGED notDash

\* The click listener of the end-session button, up to its await.
EndClick ==
    /\ page = "dashboard" /\ sessionActive
    /\ NoModal /\ ~endDisabled
    /\ endDisabled' = TRUE
    /\ endInFlight' = TRUE
    /\ Step("user", "end_click", {"POST end_session"}, "none")
    /\ UNCHANGED <<sessionActive, startDisabled, startText, startInFlight>>
    /\ UNCHANGED statusVars
    /\ UNCHANGED notDash

\* The fetch of POST /api/end_session settles.  A resolved fetch reloads the
\* page whatever the reply says; a rejected one ends the handler.
EndReply(r) ==
    /\ page = "dashboard" /\ endInFlight
    /\ IF r \in {"end_success", "end_rejected"}
       THEN /\ Reload(r = "end_rejected")
            /\ Step("reply", r, {"reload"}, "none")
            /\ UNCHANGED <<dbVars, page, studentVars, reportVars, legacyVars, fpVars, timedVars, setupVars, detailVars>>
       ELSE /\ endInFlight' = FALSE
            /\ Step("reply", r, {}, "none")
            /\ UNCHANGED <<sessionActive, startDisabled, startText, startInFlight, endDisabled>>
            /\ UNCHANGED statusVars
            /\ UNCHANGED notDash

StartReplies == {"start_success", "start_rejected", "start_network_error"}
EndReplies == {"end_success", "end_rejected", "end_network_error"}

\* ---------------------------------------------------------------------------
\* The manager modal (live manager of the dashboard, edit-day of the report)
\* ---------------------------------------------------------------------------

InFlightToggles == Cardinality({st \in Listed : tgInFlight[st] # "none"})

\* The click listener of live-manager-btn or of an edit-day button:
\* setupManagerModal up to its fetch.  The list container is emptied, so the
\* buttons of a list shown before leave the document.
OpenManager ==
    /\ \/ page = "dashboard" /\ sessionActive
       \/ page = "report" /\ rows # {}
    /\ NoModal
    /\ mgrFetches < MaxFetches
    /\ tgDetached + InFlightToggles <= MaxFetches
    /\ mgr' = "loading"
    /\ openModal(mgrOpen)
    /\ mgrFetches' = mgrFetches + 1
    /\ btnPresent' = AllFalse
    /\ btnDisabled' = AllFalse
    /\ tgInFlight' = NoToggle
    /\ tgDetached' = tgDetached + InFlightToggles
    /\ Step("user", "open_manager", {"GET students"}, "none")
    /\ UNCHANGED statusVars
    /\ UNCHANGED notMgr

\* The reply of the fetch of setupManagerModal: renderStudentList on success,
\* the error paragraph on success=false; a rejected fetch has no handler.
ManagerReply(r, data) ==
    /\ page \in {"dashboard", "report"}
    /\ mgrFetches > 0
    /\ mgrFetches' = mgrFetches - 1
    /\ CASE r = "list_success" ->
              /\ tgDetached + InFlightToggles <= MaxFetches
              /\ mgr' = "list"
              /\ btnPresent' = data
              /\ btnDisabled' = AllFalse
              /\ tgInFlight' = NoToggle
              /\ tgDetached' = tgDetached + InFlightToggles
         [] r = "list_rejected" ->
              /\ tgDetached + InFlightToggles <= MaxFetches
              /\ mgr' = "error"
              /\ btnPresent' = AllFalse
              /\ btnDisabled' = AllFalse
              /\ tgInFlight' = NoToggle
              /\ tgDetached' = tgDetached + InFlightToggles
         [] OTHER ->
              UNCHANGED <<mgr, btnPresent, btnDisabled, tgInFlight, tgDetached>>
    /\ Step("reply", r, {}, "none")
    /\ UNCHANGED <<mgrOpen, bodyModalOpen>>
    /\ UNCHANGED statusVars
    /\ UNCHANGED notMgr

\* A click on the close button of the manager modal or on its backdrop.
CloseManager ==
    /\ page \in {"dashboard", "report"}
    /\ mgrOpen
    /\ closeModal(mgrOpen)
    /\ Step("user", "manager_dismissed", {}, "none")
    /\ UNCHANGED <<mgr, mgrFetches, btnPresent, btnDisabled, tgInFlight, tgDetached>>
    /\ UNCHANGED statusVars
    /\ UNCHANGED notMgr

\* The click listener of an attendance-toggle button, up to its await.
ToggleClick(st) ==
    /\ page \in {"dashboard", "report"}
    /\ mgrOpen /\ mgr = "list"
    /\ ~btnDisabled[st]
    /\ btnDisabled' = [btnDisabled EXCEPT ![st] = TRUE]
    /\ tgInFlight' = [tgInFlight EXCEPT
                         ![st] = IF btnPresent[st] THEN "was_present" ELSE "was_absent"]
    /\ Step("user", "toggle_click", {"POST toggle_attendance"}, "none")
    /\ UNCHANGED <<mgr, mgrOpen, bodyModalOpen, mgrFetches, btnPresent, tgDetached>>
    /\ UNCHANGED statusVars
    /\ UNCHANGED notMgr

\* The reply of the toggle request of a button still in the document, or the
\* rejection of its fetch, which no handler catches.
ToggleReply(st, r) ==
    /\ page \in {"dashboard", "report"}
    /\ tgInFlight[st] # "none"
    /\ tgInFlight' = [tgInFlight EXCEPT ![st] = "none"]
    /\ CASE r = "toggle_success" ->
              /\ btnPresent' = [btnPresent EXCEPT ![st] = ~btnPresent[st]]
              /\ btnDisabled' = [btnDisabled EXCEPT ![st] = FALSE]
              /\ Step("reply", r, {}, "none")
              /\ UNCHANGED statusVars
         [] r = "toggle_rejected" ->
              /\ showStatusMessage("update_failed")
              /\ btnDisabled' = [btnDisabled EXCEPT ![st] = FALSE]
              /\ Step("reply", r, {}, "update_failed")
              /\ UNCHANGED btnPresent
         [] OTHER ->
              /\ Step("reply", r, {}, "none")
              /\ UNCHANGED <<btnPresent, btnDisabled>>
              /\ UNCHANGED statusVars
    /\ UNCHANGED <<mgr, mgrOpen, bodyModalOpen, mgrFetches, tgDetached>>
    /\ UNCHANGED notMgr

\* The same for a button that has left the document: only the status message
\* of a success=false reply is visible.
DetachedToggleReply(r) ==
    /\ page \in {"dashboard", "report"}
    /\ tgDetached > 0
    /\ tgDetached' = tgDetached - 1
    /\ IF r = "toggle_rejected"
       THEN /\ showStatusMessage("update_failed")
            /\ Step("reply", r, {}, "update_failed")
       ELSE /\ Step("reply", r, {}, "none")
            /\ UNCHANGED statusVars
    /\ UNCHANGED <<mgr, mgrOpen, bodyModalOpen, mgrFetches, btnPresent, btnDisabled, tgInFlight>>
    /\ UNCHANGED notMgr

ListReplies == {"list_success", "list_rejected", "list_network_error"}
ToggleReplies == {"toggle_success", "toggle_rejected", "toggle_network_error"}

\* ---------------------------------------------------------------------------
\* The report page: deleting a day
\* ---------------------------------------------------------------------------

ReportInit ==
    /\ rows = Dates
    /\ dateToDelete = "none"
    /\ delModalOpen = FALSE
    /\ delDisabled = FALSE
    /\ delInFlight = "none"
    /\ deletedDays = {}

\* The click listener of a delete-day button.
DeleteDayClick(d) ==
    /\ page = "report"
    /\ d \in rows
    /\ NoModal
    /\ dateToDelete' = d
    /\ openModal(delModalOpen)
    /\ Step("user", "delete_day_click", {}, "none")
    /\ UNCHANGED <<rows, delDisabled, delInFlight, deletedDays>>
    /\ UNCHANGED statusVars
    /\ UNCHANGED notReport

\* The click listener of confirm-delete-btn, up to its await.
ConfirmDeleteClick ==
    /\ page = "report"
    /\ delModalOpen /\ ~delDisabled
    /\ dateToDelete # "none"
    /\ delDisabled' = TRUE
    /\ delInFlight' = dateToDelete
    /\ Step("user", "confirm_delete_click", {"DELETE delete_day"}, "none")
    /\ UNCHANGED <<rows, dateToDelete, delModalOpen, bodyModalOpen, deletedDays>>
    /\ UNCHANGED statusVars
    /\ UNCHANGED notReport

\* The reply of DELETE /api/delete_day, or the rejection of the fetch, which
\* no handler catches.
DeleteReply(r) ==
    /\ page = "report"
    /\ delInFlight # "none"
    /\ delInFlight' = "none"
    /\ deletedDays' = IF r = "delete_success" THEN deletedDays \cup {delInFlight}
                                              ELSE deletedDays
    /\ IF r \in {"delete_success", "delete_rejected"}
       THEN /\ showStatusMessage("server")
            /\ rows' = IF r = "delete_success" THEN rows \ {dateToDelete} ELSE rows
            /\ closeModal(delModalOpen)
            /\ delDisabled' = FALSE
            /\ Step("reply", r, {}, "server")
       ELSE /\ Step("reply", r, {}, "none")
            /\ UNCHANGED <<rows, delModalOpen, bodyModalOpen, delDisabled>>
            /\ UNCHANGED statusVars
    /\ UNCHANGED dateToDelete
    /\ UNCHANGED notReport

\* A click on the close button of the delete modal or on its backdrop.
DismissDeleteModal ==
    /\ page = "report"
    /\ delModalOpen
    /\ closeModal(delModalOpen)
    /\ Step("user", "delete_modal_dismissed", {}, "none")
    /\ UNCHANGED <<rows, dateToDelete, delDisabled, delInFlight, deletedDays>>
    /\ UNCHANGED statusVars
    /\ UNCHANGED notReport

DeleteReplies == {"delete_success", "delete_rejected", "delete_network_error"}

\* ---------------------------------------------------------------------------
\* The earlier student page: the two-stage browser getAccurateLocation
\* ---------------------------------------------------------------------------

\* if (pos.coords.accuracy < 150)
AccuracyThreshold == 150

\* Accuracies, in metres, the browser may report for a fix.
Accuracies == (AccuracyThreshold - AccMargin)..(AccuracyThreshold + AccMargin)

NoPosition == [src |-> "none", accuracy |-> -1]

NoCalls == [made |-> FALSE, success |-> 0, error |-> 0]

LegacyInit ==
    /\ calls = NoCalls
    /\ locPc = "idle"
    /\ firstAcc = -1
    /\ watchOn = FALSE
    /\ delivered = NoPosition
    /\ locError = "none"
    /\ legacyDisabled = FALSE
    /\ legacyForm = TRUE

\* The submit listener of the earlier attendance form, and getAccurateLocation
\* up to its getCurrentPosition({enableHighAccuracy: false, timeout: 5000}).
LegacySubmit ==
    /\ page = "student_v2"
    /\ locPc = "idle" /\ legacyForm /\ ~legacyDisabled
    /\ legacyDisabled' = TRUE
    /\ calls' = [made |-> TRUE, success |-> 0, error |-> 0]
    /\ showStatusMessage("getting_location")
    /\ locPc' = "first"
    /\ firstAcc' = -1
    /\ delivered' = NoPosition
    /\ locError' = "none"
    /\ Step("user", "legacy_submit", {"GPS low accuracy"}, "getting_location")
    /\ UNCHANGED <<watchOn, legacyForm>>
    /\ UNCHANGED notLegacy

\* A success callback that hands over a fix of exactly the threshold accuracy.
FirstFix_Inclusive(a) ==
    /\ locPc = "first"
    /\ firstAcc' = a
    /\ IF a <= AccuracyThreshold
       THEN /\ delivered' = [src |-> "first", accuracy |-> a]
            /\ calls' = [calls EXCEPT !.success = @ + 1]
            /\ locPc' = "post"
            /\ Step("reply", "first_fix", {"POST mark_attendance"}, "none")
            /\ UNCHANGED watchOn
            /\ UNCHANGED statusVars
       ELSE /\ showStatusMessage("improving_accuracy")
            /\ watchOn' = TRUE
            /\ locPc' = "watch"
            /\ Step("reply", "first_fix", {"GPS high accuracy watch"}, "improving_accuracy")
            /\ UNCHANGED <<delivered, calls>>
    /\ UNCHANGED <<locError, legacyDisabled, legacyForm>>
    /\ UNCHANGED notLegacy

\* The success callback of getCurrentPosition: hand the fix to
\* successCallback, which sends the POST, or start the high-accuracy watch.
FirstFix(a) ==
    /\ locPc = "first"
    /\ firstAcc' = a
    /\ IF a < AccuracyThreshold
       THEN /\ delivered' = [src |-> "first", accuracy |-> a]
            /\ calls' = [calls EXCEPT !.success = @ + 1]
            /\ locPc' = "post"
            /\ Step("reply", "first_fix", {"POST mark_attendance"}, "none")
            /\ UNCHANGED watchOn
            /\ UNCHANGED statusVars
       ELSE /\ showStatusMessage("improving_accuracy")
            /\ watchOn' = TRUE
            /\ locPc' = "watch"
            /\ Step("reply", "first_fix", {"GPS high accuracy watch"}, "improving_accuracy")
            /\ UNCHANGED <<delivered, calls>>
    /\ UNCHANGED <<locError, legacyDisabled, legacyForm>>
    /\ UNCHANGED notLegacy

\* errorCallback as the submit listener passes it: show the error, enable the button.
LegacyError(which, ev) ==
    /\ locError' = which
    /\ calls' = [calls EXCEPT !.error = @ + 1]
    /\ showStatusMessage("location_error")
    /\ legacyDisabled' = FALSE
    /\ locPc' = "idle"
    /\ Step("reply", ev, {}, "location_error")

\* The error callback of getCurrentPosition.
FirstError ==
    /\ locPc = "first"
    /\ LegacyError("first", "first_error")
    /\ UNCHANGED <<firstAcc, watchOn, delivered, legacyForm>>
    /\ UNCHANGED notLegacy

\* A success callback of watchPosition that leaves the watch registered.
WatchFix_KeepsWatch(a) ==
    /\ watchOn
    /\ delivered' = [src |-> "watch", accuracy |-> a]
    /\ calls' = [calls EXCEPT !.success = @ + 1]
    /\ locPc' = "post"
    /\ Step("reply", "watch_fix", {"POST mark_attendance"}, "none")
    /\ UNCHANGED <<firstAcc, watchOn, locError, legacyDisabled, legacyForm>>
    /\ UNCHANGED statusVars
    /\ UNCHANGED notLegacy

\* The success callback of watchPosition, which the browser calls for every
\* fix while the watch is registered: clear the watch, hand the fix over.
WatchFix(a) ==
    /\ watchOn
    /\ watchOn' = FALSE
    /\ delivered' = [src |-> "watch", accuracy |-> a]
    /\ calls' = [calls EXCEPT !.success = @ + 1]
    /\ locPc' = "post"
    /\ Step("reply", "watch_fix", {"POST mark_attendance"}, "none")
    /\ UNCHANGED <<firstAcc, locError, legacyDisabled, legacyForm>>
    /\ UNCHANGED statusVars
    /\ UNCHANGED notLegacy

\* The error callback of watchPosition: clear the watch, report the error.
WatchError ==
    /\ watchOn
    /\ watchOn' = FALSE
    /\ LegacyError("watch", "watch_error")
    /\ UNCHANGED <<firstAcc, delivered, legacyForm>>
    /\ UNCHANGED notLegacy

\* The reply of POST /api/mark_attendance on the earlier page, or the
\* rejection of its fetch, which no handler catches.
LegacyPostReply(r) ==
    /\ locPc = "post"
    /\ locPc' = "idle"
    /\ CASE r = "post_success" ->
              /\ showStatusMessage("server")
              /\ legacyForm' = FALSE
              /\ Step("reply", r, {}, "server")
              /\ UNCHANGED legacyDisabled
         [] r = "post_rejected" ->
              /\ showStatusMessage("server")
              /\ legacyDisabled' = FALSE
              /\ Step("reply", r, {}, "server")
              /\ UNCHANGED legacyForm
         [] OTHER ->
              /\ Step("reply", r, {}, "none")
              /\ UNCHANGED <<legacyDisabled, legacyForm>>
              /\ UNCHANGED statusVars
    /\ UNCHANGED <<firstAcc, watchOn, delivered, locError, calls>>
    /\ UNCHANGED notLegacy

\* How the request to the Google geolocation API ends for the first
\* frontend: an OK reply with location and accuracy, one without accuracy, one
\* without location, a body that is not JSON, a reply that is not OK, a
\* rejected fetch.
ApiReplies == {"api_ok", "api_ok_no_accuracy", "api_ok_no_location", "api_bad_json",
               "api_not_ok", "api_network_error"}

\* The submit listener of the first frontend, and its getAccurateLocation up
\* to the fetch: without an API key errorCallback is called at once.
ApiSubmit ==
    /\ page = "student_v1"
    /\ locPc = "idle" /\ legacyForm /\ ~legacyDisabled
    /\ firstAcc' = -1
    /\ delivered' = NoPosition
    /\ IF apiKey = "missing"
       THEN /\ locError' = "key"
            /\ calls' = [made |-> TRUE, success |-> 0, error |-> 1]
            /\ showStatusMessage("location_error")
            /\ legacyDisabled' = FALSE
            /\ locPc' = "idle"
            /\ Step("user", "key_missing", {}, "location_error")
       ELSE /\ locError' = "none"
            /\ calls' = [made |-> TRUE, success |-> 0, error |-> 0]
            /\ legacyDisabled' = TRUE
            /\ locPc' = "google"
            /\ Step("user", "api_submit", {"Google geolocate"}, "none")
            /\ UNCHANGED statusVars
    /\ UNCHANGED <<watchOn, legacyForm>>
    /\ UNCHANGED notLegacy

\* getAccurateLocation of the first frontend from the reply on: an OK reply
\* is handed to successCallback; data.location.lat of a reply without
\* location throws inside the try, and the catch calls errorCallback, as it
\* does for a rejected fetch or json(); a reply that is not OK is handed to
\* errorCallback.
ApiReply(r, a) ==
    /\ locPc = "google"
    /\ IF r \in {"api_ok", "api_ok_no_accuracy"}
       THEN /\ delivered' = [src |-> "google", accuracy |-> IF r = "api_ok" THEN a ELSE -1]
            /\ calls' = [calls EXCEPT !.success = @ + 1]
            /\ locPc' = "post"
            /\ Step("reply", r, {"POST mark_attendance"}, "none")
            /\ UNCHANGED <<locError, legacyDisabled>>
            /\ UNCHANGED statusVars
       ELSE /\ LegacyError("google", r)
            /\ UNCHANGED delivered
    /\ UNCHANGED <<firstAcc, watchOn, legacyForm>>
    /\ UNCHANGED notLegacy

LegacyNext ==
    \/ ApiSubmit
    \/ \E r \in ApiReplies, a \in Accuracies : ApiReply(r, a)
    \/ LegacySubmit
    \/ \E a \in Accuracies : FirstFix(a)
    \/ FirstError
    \/ \E a \in Accuracies : WatchFix(a)
    \/ WatchError
    \/ \E r \in {"post_success", "post_rejected", "post_network_error"} : LegacyPostReply(r)
    \/ HideStatus

\* ---------------------------------------------------------------------------
\* getDeviceFingerprint and the form data of handleAttendanceSubmission
\* ---------------------------------------------------------------------------
\* Strings are sequences of character codes.

RECURSIVE Digits(_)
\* The decimal digits of a natural number, as String(n) writes them.
Digits(n) == IF n < 10 THEN <<48 + n>> ELSE Digits(n \div 10) \o <<48 + (n % 10)>>

\* JSON.stringify of a number: a minus sign for a negative one.
JsonNumber(n) == IF n < 0 THEN <<45>> \o Digits(0 - n) ELSE Digits(n)

\* JSON.stringify of a string value (of one that needs no escape): quoted.
JsonString(s) == <<34>> \o s \o <<34>>

\* "key":
JsonKey(k) == JsonString(k) \o <<58>>

\* The object literal of getDeviceFingerprint, in the order of its properties.
Components(e) ==
    << <<<<117, 115, 101, 114, 65, 103, 101, 110, 116>>, JsonString(e.userAgent)>>,
       <<<<115, 99, 114, 101, 101, 110, 87, 105, 100, 116, 104>>, JsonNumber(e.screenWidth)>>,
       <<<<115, 99, 114, 101, 101, 110, 72, 101, 105, 103, 104, 116>>, JsonNumber(e.screenHeight)>>,
       <<<<99, 111, 108, 111, 114, 68, 101, 112, 116, 104>>, JsonNumber(e.colorDepth)>>,
       <<<<116, 105, 109, 101, 122, 111, 110, 101>>, JsonNumber(e.timezoneOffset)>>,
       <<<<108, 97, 110, 103, 117, 97, 103, 101>>, JsonString(e.language)>>,
       <<<<112, 108, 97, 116, 102, 111, 114, 109>>, JsonString(e.platform)>> >>

RECURSIVE JsonMembers(_)
\* The members of an object, separated by commas.
JsonMembers(cs) ==
    IF cs = <<>> THEN <<>>
    ELSE JsonKey(Head(cs)[1]) \o Head(cs)[2]
         \o (IF Tail(cs) = <<>> THEN <<>> ELSE <<44>> \o JsonMembers(Tail(cs)))

\* JSON.stringify(components)
JsonStringify(cs) == <<123>> \o JsonMembers(cs) \o <<125>>

\* TextEncoder.encode of one character: one byte below U+0080, two bytes
\* below U+0800.
Utf8Char(c) == IF c < 128 THEN <<c>> ELSE <<192 + (c \div 64), 128 + (c % 64)>>

RECURSIVE ConcatRange(_, _, _)
\* ss[lo] \o ... \o ss[hi]
ConcatRange(ss, lo, hi) ==
    IF lo > hi THEN <<>>
    ELSE IF lo = hi THEN ss[lo]
    ELSE LET mid == (lo + hi) \div 2
         IN  ConcatRange(ss, lo, mid) \o ConcatRange(ss, mid + 1, hi)

\* TextEncoder.encode(jsonString)
Utf8(s) == ConcatRange([i \in 1..Len(s) |-> Utf8Char(s[i])], 1, Len(s))

RECURSIVE PolyRange(_, _, _)
\* Of bytes[lo..hi]: h, the polynomial b[lo] * 31^(n-1) + ... + b[hi], and
\* p = 31^n, both modulo 2^15.
PolyRange(bytes, lo, hi) ==
    IF lo > hi THEN [h |-> 0, p |-> 1]
    ELSE IF lo = hi THEN [h |-> bytes[lo] % 32768, p |-> 31]
    ELSE LET mid == (lo + hi) \div 2
             l == PolyRange(bytes, lo, mid)
             r == PolyRange(bytes, mid + 1, hi)
         IN  [h |-> (l.h * r.p + r.h) % 32768, p |-> (l.p * r.p) % 32768]

\* crypto.subtle.digest: a function of the bytes alone.  SHA-256 is replaced
\* by a 15-bit polynomial hash (h := 31 h + b over the bytes, from 7), whose
\* two bytes stand for the 32 of the digest.
Digest(bytes) ==
    LET r == PolyRange(bytes, 1, Len(bytes))
        h == (7 * r.p + r.h) % 32768
    IN  <<h \div 256, h % 256>>

HexChars == <<"0", "1", "2", "3", "4", "5", "6", "7", "8", "9", "a", "b", "c", "d", "e", "f">>

\* b.toString(16).padStart(2, '0')
HexByte(b) == HexChars[(b \div 16) + 1] \o HexChars[(b % 16) + 1]

RECURSIVE HexJoin(_)
\* hashArray.map(...).join('')
HexJoin(bytes) == IF bytes = <<>> THEN "" ELSE HexByte(Head(bytes)) \o HexJoin(Tail(bytes))

\* The browsers the model knows: a desktop, the same desktop with another
\* language, a phone in a zone east of Greenwich with a non-ASCII user agent.
Envs ==
    { [userAgent |-> <<70, 120>>, screenWidth |-> 1920, screenHeight |-> 1080,
       colorDepth |-> 24, timezoneOffset |-> 0, language |-> <<101, 110>>,
       platform |-> <<87, 105, 110, 51, 50>>],
      [userAgent |-> <<70, 120>>, screenWidth |-> 1920, screenHeight |-> 1080,
       colorDepth |-> 24, timezoneOffset |-> 0, language |-> <<104, 105>>,
       platform |-> <<87, 105, 110, 51, 50>>],
      [userAgent |-> <<67, 114, 233>>, screenWidth |-> 412, screenHeight |-> 915,
       colorDepth |-> 24, timezoneOffset |-> -330, language |-> <<104, 105>>,
       platform |-> <<76, 105, 110, 117, 120>>] }

Enrollments == {"Y24120001", "Y24120002"}
PageSessions == {1, 2}
Methods == {"gps", "google"}
Positions == {[latitude |-> 23, longitude |-> 78], [latitude |-> 24, longitude |-> 79]}

\* The bodies of a geolocation reply: with or without a location, with or
\* without an accuracy, which may be 0.
GoogleBodies ==
    {[hasLocation |-> hl, location |-> IF hl THEN [lat |-> q.latitude, lng |-> q.longitude]
                                             ELSE Undefined,
      hasAccuracy |-> ha, accuracy |-> IF ha THEN a ELSE 0] :
        hl \in BOOLEAN, ha \in BOOLEAN, q \in Positions, a \in {0} \cup Accuracies}

\* A reply whose body is not read, or is not JSON.
NoBody == [hasLocation |-> FALSE, location |-> Undefined, hasAccuracy |-> FALSE, accuracy |-> 0]

\* The ways the fetch of getGoogleApiLocation ends: rejected, resolved with
\* a status that is not OK, resolved OK with a body that is not JSON or with
\* one of the bodies.
GoogleReplies ==
    {[fetch |-> "rejected", ok |-> FALSE, body |-> NoBody]}
    \cup {[fetch |-> f, ok |-> FALSE, body |-> NoBody] : f \in {"not_json", "json"}}
    \cup {[fetch |-> "not_json", ok |-> TRUE, body |-> NoBody]}
    \cup {[fetch |-> "json", ok |-> TRUE, body |-> b] : b \in GoogleBodies}

\* The fingerprint of every browser of the model, computed as
\* getDeviceFingerprint computes it.
FingerprintOf == [e \in Envs |-> HexJoin(Digest(Utf8(JsonStringify(Components(e)))))]

\* A fingerprint that also hashes the id of the session of the page.
getDeviceFingerprint_WithSession ==
    HexJoin(Digest(Utf8(JsonStringify(
        Components(env) \o << <<<<115, 101, 115, 115, 105, 111, 110>>, JsonNumber(sessionId)>> >>))))

\* getDeviceFingerprint(): reads navigator, screen and the timezone offset.
getDeviceFingerprint == FingerprintOf[env]

FpInit ==
    /\ env \in Envs
    /\ enrollment \in Enrollments
    /\ sessionId \in PageSessions
    /\ posted = {}

\* The properties the browser reports change (another browser or device, a
\* changed language, a changed clock).
ChangeEnv(e) ==
    /\ e # env
    /\ env' = e
    /\ UNCHANGED <<enrollment, sessionId, posted>>
    /\ UNCHANGED notFp

\* The student types another enrollment number.
TypeEnrollment(v) ==
    /\ v # enrollment
    /\ enrollment' = v
    /\ UNCHANGED <<env, sessionId, posted>>
    /\ UNCHANGED notFp

\* The page is loaded for another session.
LoadSession(s) ==
    /\ s # sessionId
    /\ sessionId' = s
    /\ UNCHANGED <<env, enrollment, posted>>
    /\ UNCHANGED notFp

\* handleAttendanceSubmission(position, method) up to its fetch: the form
\* data of the POST.  seen is the browser the fingerprint was computed in.
handleAttendanceSubmission(position, method) ==
    /\ Cardinality(posted) < MaxPosts
    /\ posted' = posted \cup
          {[enrollment_no |-> enrollment,
            session_id |-> sessionId,
            latitude |-> position.latitude,
            longitude |-> position.longitude,
            location_method |-> method,
            fingerprint |-> getDeviceFingerprint,
            seen |-> env]}
    /\ UNCHANGED <<env, enrollment, sessionId>>
    /\ UNCHANGED notFp

DeviceNext ==
    \/ \E e \in Envs : ChangeEnv(e)
    \/ \E v \in Enrollments : TypeEnrollment(v)
    \/ \E s \in PageSessions : LoadSession(s)
    \/ \E p \in Positions, m \in Methods : handleAttendanceSubmission(p, m)

\* ---------------------------------------------------------------------------
\* The timers of the student page: the live list, the name lookup, the countdown
\* ---------------------------------------------------------------------------

\* Delay of the setInterval of the live list, in milliseconds.
PollInterval == 10000
\* Delay of the setInterval of startRobustTimer.
TickInterval == 1000
\* Delay handed to debounce by the input listener.
DebounceDelay == 250
\* Length of the trimmed enrollment number from which a lookup is sent.
MinLookupLength == 5
\* let timeout; of debounce before the first call: no timeout set.
NoTimeout == 0

\* Intervals of the live list the model follows.
MaxPolls == 2
\* Requests of one kind awaiting their reply.
MaxInFlight == 2
\* Students a reply of get_present_students lists.
MaxPresent == 1
\* Debounce delays the model follows.
MaxDelays == 3
\* Blanks typed before and after an enrollment number.
MaxPad == 1
\* Seconds of the countdown the model follows.
MaxSeconds == 3
\* Minutes a session has left at most when the page is loaded.
MaxMinutes == 2

\* Due times of the timers that are registered.
DueTimes ==
    (IF pollOn THEN {pollDue} ELSE {}) \cup pending \cup (IF timerOn THEN {timerDue} ELSE {})
    \cup hideDue

\* new Date().getTime() grows by d; a timer that is due runs before time goes on.
Advance(d, horizon) ==
    /\ ~unloaded
    /\ now + d <= horizon
    /\ \A t \in DueTimes : now + d <= t
    /\ now' = now + d
    /\ UNCHANGED <<unloaded, pollVars, lookupVars, countdownVars>>
    /\ UNCHANGED notTimed

\* The document is replaced (a reload, a navigation, the tab is closed): its
\* timers are gone and the replies to its requests reach nobody.
Unload ==
    /\ ~unloaded
    /\ unloaded' = TRUE
    /\ pollOn' = FALSE
    /\ pollFetches' = {}
    /\ pending' = {}
    /\ lookups' = EmptyBag
    /\ timerOn' = FALSE
    /\ UNCHANGED <<now, pollDue, presentList, pollLast, inputValue, timeout, nameDisplay,
                   displayOf, burst, endTime, timerDue, timerText, formInDocument, expiry>>
    /\ UNCHANGED notTimed

\* --- the live list

PresentNames == {<<65>>, <<66>>}

RECURSIVE SeqsUpTo(_, _)
\* The sequences over S of length n or less.
SeqsUpTo(S, n) ==
    IF n = 0 THEN {<<>>}
    ELSE LET shorter == SeqsUpTo(S, n - 1)
         IN  shorter \cup {Append(s, x) : s \in {q \in shorter : Len(q) = n - 1}, x \in S}

\* data.students of a reply that has such a member.
PresentData == SeqsUpTo(PresentNames, MaxPresent)

\* <li>No one has marked attendance yet.</li>
EmptyNotice == <<<<78, 111, 32, 111, 110, 101>>>>

\* The innerHTML fetchPresentStudents writes: one li per student, or the notice.
RenderPresent(list) == IF Len(list) > 0 THEN list ELSE EmptyNotice

\* How a GET /api/get_present_students ends.
PresentReplies ==
    {[kind |-> "json", success |-> s, listed |-> TRUE, students |-> d] :
        s \in BOOLEAN, d \in PresentData}
    \cup {[kind |-> "json", success |-> s, listed |-> FALSE, students |-> <<>>] :
             s \in BOOLEAN}
    \cup {[kind |-> k, success |-> FALSE, listed |-> FALSE, students |-> <<>>] :
             k \in {"network_error", "bad_json"}}

\* fetchPresentStudents(sessionId) up to its fetch.
fetchPresentStudents ==
    /\ pollFetches' = pollFetches \cup {pollLast.sent + 1}
    /\ pollLast' = [pollLast EXCEPT !.sent = @ + 1, !.ev = "fetch"]

\* initStudentPage, lines 144-149: with an active session the list is fetched
\* and the interval is set; the page has a present-students-list.
PollInit ==
    /\ pollOn = (sessionId # NULL)
    /\ pollDue = PollInterval
    /\ pollFetches = IF sessionId # NULL THEN {1} ELSE {}
    /\ presentList = <<>>
    /\ pollLast = [sent |-> IF sessionId # NULL THEN 1 ELSE 0, ev |-> "load",
                   before |-> <<>>, failed |-> 0, shownOf |-> 0, newest |-> 0]

\* The interval fires.
PollFire ==
    /\ ~unloaded
    /\ pollOn
    /\ now = pollDue
    /\ Cardinality(pollFetches) < MaxInFlight
    /\ pollDue' = pollDue + PollInterval
    /\ fetchPresentStudents
    /\ UNCHANGED <<pollOn, presentList>>
    /\ UNCHANGED <<now, unloaded, lookupVars, countdownVars>>
    /\ UNCHANGED notTimed

\* A reply handler that gives up on a failure: it empties the list and
\* clears the interval.
PresentReply_GivesUp(id, r) ==
    /\ ~unloaded
    /\ id \in pollFetches
    /\ pollFetches' = pollFetches \ {id}
    /\ LET good == r.kind = "json" /\ r.success /\ r.listed
       IN  /\ presentList' = IF good THEN RenderPresent(r.students) ELSE <<>>
           /\ pollOn' = (pollOn /\ good)
           /\ pollLast' = [pollLast EXCEPT !.ev = IF good THEN "shown" ELSE "failed",
                                           !.before = presentList,
                                           !.failed = IF good THEN @ ELSE 1,
                                           !.shownOf = IF good THEN id ELSE @,
                                           !.newest = IF good /\ id > @ THEN id ELSE @]
    /\ UNCHANGED pollDue
    /\ UNCHANGED <<now, unloaded, lookupVars, countdownVars>>
    /\ UNCHANGED notTimed

\* fetchPresentStudents from its fetch on, for the fetch sent as number id: a
\* reply with success and students is rendered; any other reply, and a rejected fetch or json(), changes nothing.
PresentReply(id, r) ==
    /\ ~unloaded
    /\ id \in pollFetches
    /\ pollFetches' = pollFetches \ {id}
    /\ LET good == r.kind = "json" /\ r.success /\ r.listed
       IN  /\ presentList' = IF good THEN RenderPresent(r.students) ELSE presentList
           /\ pollLast' = [pollLast EXCEPT !.ev = IF good THEN "shown" ELSE "failed",
                                           !.before = presentList,
                                           !.failed = IF good THEN @ ELSE 1,
                                           !.shownOf = IF good THEN id ELSE @,
                                           !.newest = IF good /\ id > @ THEN id ELSE @]
    /\ UNCHANGED <<pollOn, pollDue>>
    /\ UNCHANGED <<now, unloaded, lookupVars, countdownVars>>
    /\ UNCHANGED notTimed

\* --- the name lookup

RECURSIVE TrimStart(_)
TrimStart(s) == IF Len(s) > 0 /\ Head(s) = 32 THEN TrimStart(Tail(s)) ELSE s

RECURSIVE TrimEnd(_)
TrimEnd(s) ==
    IF Len(s) > 0 /\ s[Len(s)] = 32 THEN TrimEnd(SubSeq(s, 1, Len(s) - 1)) ELSE s

\* String.prototype.trim, for the blank as the only white space.
Trim(s) == TrimEnd(TrimStart(s))

\* n times the character c.
Repeat(c, n) == [i \in 1..n |-> c]

\* What the student may have typed: an enrollment number one character
\* short of a lookup, just long enough or one longer, with blanks around it.
InputValues ==
    {Repeat(32, l) \o Repeat(89, k) \o Repeat(32, r) :
        l \in 0..MaxPad, r \in 0..MaxPad, k \in (MinLookupLength - 1)..(MinLookupLength + 1)}

\* A debounce that never clears the timeout it set before.
debounce_NoClear(p, t, due) == p \cup {due}

\* debounce: the timeouts pending after a call of the debounced function
\* at a time when p are pending and t was set last.
debounce(p, t, due) == (p \ {t}) \cup {due}

LookupInit ==
    /\ inputValue = <<>>
    /\ pending = {}
    /\ timeout = NoTimeout
    /\ lookups = EmptyBag
    /\ nameDisplay = "none"
    /\ displayOf = <<>>
    /\ burst = [seen |-> FALSE, many |-> FALSE, lastAt |-> 0, fired |-> 0, sent |-> 0,
                url |-> <<>>, at |-> 0]

\* An input event on enrollment_no: the debounced listener runs.  An event
\* less than the delay after the one before belongs to the same burst.  A
\* timeout that is due runs before the event.
InputEvent(v) ==
    /\ ~unloaded
    /\ v # inputValue
    /\ \A t \in pending : now < t
    /\ inputValue' = v
    /\ pending' = debounce(pending, timeout, now + DebounceDelay)
    /\ timeout' = now + DebounceDelay
    /\ burst' = IF burst.seen /\ now - burst.lastAt < DebounceDelay
                THEN [burst EXCEPT !.lastAt = now, !.many = TRUE]
                ELSE [seen |-> TRUE, many |-> FALSE, lastAt |-> now, fired |-> 0,
                      sent |-> 0, url |-> <<>>, at |-> 0]
    /\ UNCHANGED <<lookups, nameDisplay, displayOf>>
    /\ UNCHANGED <<now, unloaded, pollVars, countdownVars>>
    /\ UNCHANGED notTimed

\* A timeout of debounce runs the listener up to its fetch: e.target.value
\* is read now.
LookupFire(t) ==
    /\ ~unloaded
    /\ t \in pending
    /\ now = t
    /\ pending' = pending \ {t}
    /\ LET enrollmentNo == Trim(inputValue)
       IN  IF Len(enrollmentNo) >= MinLookupLength
           THEN /\ BagCardinality(lookups) < MaxInFlight
                /\ lookups' = lookups (+) SetToBag({enrollmentNo})
                /\ nameDisplay' = "Searching..."
                /\ burst' = [burst EXCEPT !.fired = @ + 1, !.sent = @ + 1,
                                          !.url = enrollmentNo, !.at = now]
           ELSE /\ lookups' = lookups
                /\ nameDisplay' = "none"
                /\ burst' = [burst EXCEPT !.fired = @ + 1]
    /\ displayOf' = <<>>
    /\ UNCHANGED <<inputValue, timeout>>
    /\ UNCHANGED <<now, unloaded, pollVars, countdownVars>>
    /\ UNCHANGED notTimed

LookupReplies == {"found", "not_found", "network_error"}

\* The listener from its fetch on, for the lookup of the enrollment number n;
\* a rejected fetch or json() is not caught and leaves the display as it is.
LookupReply(n, r) ==
    /\ ~unloaded
    /\ BagIn(n, lookups)
    /\ lookups' = lookups (-) SetToBag({n})
    /\ nameDisplay' = CASE r = "found" -> "Name: ..."
                        [] r = "not_found" -> "Student not found."
                        [] OTHER -> nameDisplay
    /\ displayOf' = IF r \in {"found", "not_found"} THEN n ELSE displayOf
    /\ UNCHANGED <<inputValue, pending, timeout, burst>>
    /\ UNCHANGED <<now, unloaded, pollVars, countdownVars>>
    /\ UNCHANGED notTimed

\* --- the countdown

\* 'Session Ended'
SessionEnded == <<83, 101, 115, 115, 105, 111, 110, 32, 69, 110, 100, 101, 100>>

\* The seconds written as they are, without padding.
PadStart2_Unpadded(s) == s

\* seconds.toString().padStart(2, '0')
PadStart2(s) == IF Len(s) < 2 THEN <<48>> \o s ELSE s

\* `${minutes}m ${seconds}s`
TimerFormat(remaining) ==
    LET minutes == remaining \div 60000
        seconds == (remaining % 60000) \div 1000
    IN  Digits(minutes) \o <<109, 32>> \o PadStart2(Digits(seconds)) \o <<115>>

\* End times of the session, relative to the load of the page: passed
\* already, or up to MaxSeconds ahead, on a tick or between two ticks.
EndTimes == {k * (TickInterval \div 2) : k \in -1..(2 * MaxSeconds)}

\* startRobustTimer(end_time, timerElement), called with an active session.
CountdownInit ==
    /\ endTime \in EndTimes
    /\ timerOn = (sessionId # NULL)
    /\ timerDue = TickInterval
    /\ timerText = <<>>
    /\ formInDocument \in BOOLEAN
    /\ expiry = [ticks |-> 0, reloads |-> 0, late |-> FALSE, run |-> 0, at |-> 0]

\* A tick that leaves the interval running at expiry.
TimerTick_KeepsRunning ==
    /\ ~unloaded
    /\ timerOn
    /\ now = timerDue
    /\ timerDue' = timerDue + TickInterval
    /\ LET remaining == endTime - now
       IN  IF remaining <= 0
           THEN /\ timerText' = SessionEnded
                /\ expiry' = [ticks |-> expiry.ticks + 1,
                              reloads |-> expiry.reloads + IF formInDocument THEN 1 ELSE 0,
                              late |-> expiry.late \/ expiry.ticks > 0,
                              run |-> expiry.run + 1, at |-> now]
           ELSE /\ timerText' = TimerFormat(remaining)
                /\ expiry' = [expiry EXCEPT !.late = @ \/ expiry.ticks > 0,
                                             !.run = @ + 1, !.at = now]
    /\ UNCHANGED <<endTime, timerOn, formInDocument>>
    /\ UNCHANGED <<now, unloaded, pollVars, lookupVars>>
    /\ UNCHANGED notTimed

\* The callback of timerInterval.
TimerTick ==
    /\ ~unloaded
    /\ timerOn
    /\ now = timerDue
    /\ timerDue' = timerDue + TickInterval
    /\ LET remaining == endTime - now
       IN  IF remaining <= 0
           THEN /\ timerOn' = FALSE
                /\ timerText' = SessionEnded
                /\ expiry' = [ticks |-> expiry.ticks + 1,
                              reloads |-> expiry.reloads + IF formInDocument THEN 1 ELSE 0,
                              late |-> expiry.late \/ expiry.ticks > 0,
                              run |-> expiry.run + 1, at |-> now]
           ELSE /\ timerOn' = timerOn
                /\ timerText' = TimerFormat(remaining)
                /\ expiry' = [expiry EXCEPT !.late = @ \/ expiry.ticks > 0,
                                             !.run = @ + 1, !.at = now]
    /\ UNCHANGED <<endTime, formInDocument>>
    /\ UNCHANGED <<now, unloaded, pollVars, lookupVars>>
    /\ UNCHANGED notTimed

\* End times up to MaxMinutes ahead, on a tick or between two ticks.
LongEndTimes == {k * (TickInterval \div 2) : k \in 1..(120 * MaxMinutes)}

\* startRobustTimer(end_time, timerElement) with minutes left.
LongCountdownInit ==
    /\ endTime \in LongEndTimes
    /\ timerOn = (sessionId # NULL)
    /\ timerDue = TickInterval
    /\ timerText = <<>>
    /\ formInDocument \in BOOLEAN
    /\ expiry = [ticks |-> 0, reloads |-> 0, late |-> FALSE, run |-> 0, at |-> 0]

\* Times the tab is throttled or the device sleeps.
SleepTimes == {k * (TickInterval \div 2) : k \in 3..(2 * MaxDelays)}

\* The tab is throttled or the device sleeps for d milliseconds on a page
\* whose only timer is the countdown: the clock goes on, the ticks due
\* meanwhile are not made up, the callback runs once at the end.
Sleep(d, horizon) ==
    /\ ~unloaded
    /\ now + d <= horizon
    /\ DueTimes \subseteq {timerDue}
    /\ now' = now + d
    /\ timerDue' = IF timerOn /\ timerDue < now + d THEN now + d ELSE timerDue
    /\ UNCHANGED <<endTime, timerOn, timerText, formInDocument, expiry>>
    /\ UNCHANGED <<unloaded, pollVars, lookupVars>>
    /\ UNCHANGED notTimed

\* The page has just been loaded.
ClockInit ==
    /\ now = 0
    /\ unloaded = FALSE

\* No interval of the live list.
PollQuiet ==
    /\ pollOn = FALSE
    /\ pollDue = PollInterval
    /\ pollFetches = {}
    /\ presentList = <<>>
    /\ pollLast = [sent |-> 0, ev |-> "load", before |-> <<>>, failed |-> 0,
                   shownOf |-> 0, newest |-> 0]

\* No countdown.
CountdownQuiet ==
    /\ endTime = 0
    /\ timerOn = FALSE
    /\ timerDue = TickInterval
    /\ timerText = <<>>
    /\ formInDocument = TRUE
    /\ expiry = [ticks |-> 0, reloads |-> 0, late |-> FALSE, run |-> 0, at |-> 0]

\* No timer of the student page is registered.
TimedQuiet == ClockInit /\ PollQuiet /\ LookupInit /\ CountdownQuiet

\* ---------------------------------------------------------------------------
\* The schema: users, students and classes, and the setup script
\* ---------------------------------------------------------------------------

Usernames == {"controller", "second"}
Roles == {"controller", "student"}
EnrollmentNos == {"Y24120001", "Y24120002"}
StudentNames == {"ANSHUL TAMRAKAR", "KHUSHVEER SINGH SURYAVANSHI"}

\* The value lists an INSERT INTO users may carry: a column that is left
\* out gets its default, which is NULL for username.
UserInserts ==
    {[username |-> u, role |-> r] : u \in Usernames, r \in Roles}
    \cup {[username |-> u] : u \in Usernames}
    \cup {[role |-> r] : r \in Roles}

\* The value lists an INSERT INTO students may carry.
StudentInserts ==
    {[enrollment_no |-> e, name |-> n, batch |-> "BA"] : e \in EnrollmentNos, n \in StudentNames}
    \cup {[name |-> n, batch |-> "BA"] : n \in StudentNames}

\* role VARCHAR(20) NOT NULL DEFAULT 'controller'
UserRow(v) ==
    [username |-> v.username,
     role |-> IF "role" \in DOMAIN v THEN v.role ELSE "controller"]

\* CHECK (role = 'controller')
RoleCheckOk(v) == "role" \in DOMAIN v => v.role = "controller"

\* username VARCHAR(50) UNIQUE
UsernameUniqueOk(v) == \A r \in DOMAIN users : r.username # v.username

\* A students table whose enrollment_no is not declared UNIQUE.
EnrollmentUniqueOk_Dropped(v) == TRUE

\* enrollment_no VARCHAR(20) UNIQUE
EnrollmentUniqueOk(v) == \A r \in DOMAIN studentRows : r.enrollment_no # v.enrollment_no

\* The first two rows of the seed list of students.
SeedStudents ==
    {[enrollment_no |-> "Y24120001", name |-> "ANSHUL TAMRAKAR", batch |-> "BA"],
     [enrollment_no |-> "Y24120002", name |-> "KHUSHVEER SINGH SURYAVANSHI", batch |-> "BA"]}

\* A database without the tables of the script.
NoTables == [exists |-> FALSE, failed |-> FALSE, users |-> EmptyBag,
             students |-> EmptyBag, classes |-> EmptyBag]

\* The database as it stands: the tables exist.
Tables == [exists |-> TRUE, failed |-> FALSE, users |-> users,
           students |-> studentRows, classes |-> classRows]

\* A script that starts with the CREATE TABLE statements.
DropTables_Kept(db) == db

\* DROP TABLE IF EXISTS ... CASCADE; for every table of the script.
DropTables(db) == [NoTables EXCEPT !.failed = db.failed]

\* CREATE TABLE ...; for every table: an error when the table exists, and
\* the script goes on with the next statement.
CreateTables(db) ==
    IF db.exists THEN [db EXCEPT !.failed = TRUE] ELSE [db EXCEPT !.exists = TRUE]

\* INSERT INTO users (username, role) VALUES ('controller', 'controller')
\* ON CONFLICT (username) DO NOTHING;
SeedUser(db) ==
    LET v == [username |-> "controller", role |-> "controller"]
    IN  IF \E r \in DOMAIN db.users : r.username = v.username
        THEN db
        ELSE [db EXCEPT !.users = @ (+) SetToBag({UserRow(v)})]

\* INSERT INTO classes (...) VALUES ('BA - AIH', (SELECT id FROM users WHERE
\* username = 'controller'), 23.8244, 78.7706, 2250) ON CONFLICT (class_name)
\* DO NOTHING;  The coordinates are in 1/10000 of a degree; a subquery
\* without a row gives NULL.
SeedClass(db) ==
    LET owner == {r.username : r \in {q \in DOMAIN db.users : q.username = "controller"}}
        v == [class_name |-> "BA - AIH",
              controller_id |-> IF owner = {} THEN "NULL" ELSE "controller",
              geofence_lat |-> 238244, geofence_lon |-> 787706,
              geofence_radius |-> 2250]
    IN  IF \E r \in DOMAIN db.classes : r.class_name = v.class_name
        THEN db
        ELSE [db EXCEPT !.classes = @ (+) SetToBag({v})]

\* INSERT INTO students (enrollment_no, name, batch) VALUES ... ON CONFLICT
\* (enrollment_no) DO NOTHING;  The rows of the list that meet no row of
\* their enrollment number are written.
SeedStudentRows(db) ==
    LET fresh == {v \in SeedStudents :
                     \A r \in DOMAIN db.students : r.enrollment_no # v.enrollment_no}
    IN  [db EXCEPT !.students = @ (+) SetToBag(fresh)]

\* The setup script, statement by statement.
SetupScript(db) == SeedStudentRows(SeedClass(SeedUser(CreateTables(DropTables(db)))))

\* The tables after the setup script has run on a new database.
SetupInit ==
    /\ users = SetToBag({[username |-> "controller", role |-> "controller"]})
    /\ studentRows = SetToBag(SeedStudents)
    /\ classRows = SetupScript(NoTables).classes
    /\ setupLast = [op |-> "setup", res |-> "ok", conflict |-> FALSE, changed |-> TRUE]

\* INSERT INTO users ... ; with ON CONFLICT (username) DO NOTHING when
\* onConflict.  The NOT NULL and CHECK constraints are tested before the row
\* is written, the unique index when it is.
InsertUser(v, onConflict) ==
    LET res == IF "username" \notin DOMAIN v THEN "not_null_violation"
               ELSE IF ~RoleCheckOk(v) THEN "check_violation"
               ELSE IF UsernameUniqueOk(v) THEN "ok"
               ELSE IF onConflict THEN "skipped"
               ELSE "unique_violation"
    IN  /\ res = "ok" => BagCardinality(users) < MaxRows
        /\ users' = IF res = "ok" THEN users (+) SetToBag({UserRow(v)}) ELSE users
        /\ setupLast' = [op |-> "insert_user", res |-> res,
                         conflict |-> "username" \in DOMAIN v
                                      /\ \E r \in DOMAIN users : r.username = v.username,
                         changed |-> users' # users]
        /\ UNCHANGED <<studentRows, classRows>>
        /\ UNCHANGED notSetup

\* INSERT INTO students ... ; with ON CONFLICT (enrollment_no) DO NOTHING
\* when onConflict, as the seed statement has it.
InsertStudent(v, onConflict) ==
    LET res == IF "enrollment_no" \notin DOMAIN v THEN "not_null_violation"
               ELSE IF EnrollmentUniqueOk(v) THEN "ok"
               ELSE IF onConflict THEN "skipped"
               ELSE "unique_violation"
    IN  /\ res = "ok" => BagCardinality(studentRows) < MaxRows
        /\ studentRows' = IF res = "ok" THEN studentRows (+) SetToBag({v}) ELSE studentRows
        /\ setupLast' = [op |-> IF onConflict THEN "seed_student" ELSE "insert_student",
                         res |-> res,
                         conflict |-> "enrollment_no" \in DOMAIN v
                                      /\ \E r \in DOMAIN studentRows :
                                             r.enrollment_no = v.enrollment_no,
                         changed |-> studentRows' # studentRows]
        /\ UNCHANGED <<users, classRows>>
        /\ UNCHANGED notSetup

\* DELETE FROM students WHERE the row is r.
DeleteStudentRow(r) ==
    /\ studentRows' = studentRows (-) SetToBag({r})
    /\ setupLast' = [op |-> "delete_student", res |-> "ok", conflict |-> FALSE,
                     changed |-> TRUE]
    /\ UNCHANGED <<users, classRows>>
    /\ UNCHANGED notSetup

\* The setup script is run on the database as it stands.  The attendance
\* tables are dropped and created with the others.
RunSetupScript ==
    LET db == SetupScript(Tables)
    IN  /\ users' = db.users
        /\ studentRows' = db.students
        /\ classRows' = db.classes
        /\ setupLast' = [op |-> "setup_again",
                         res |-> IF db.failed THEN "error" ELSE "ok",
                         conflict |-> FALSE,
                         changed |-> <<db.users, db.students, db.classes>>
                                         # <<users, studentRows, classRows>>]
        /\ sessions' = {}
        /\ sessSeq' = 0
        /\ students' = StudentIds
        /\ records' = EmptyBag
        /\ fps' = EmptyBag
        /\ dbLast' = Done("none", "none")
        /\ UNCHANGED <<uiVars, legacyVars, fpVars, timedVars, detailVars>>

\* ---------------------------------------------------------------------------
\* The manager modal of the report page, element by element
\* ---------------------------------------------------------------------------

\* Clicks on edit-day and toggle buttons and inputs of the search box.
MaxInputs == 4

\* A toggle button that is not in the list.
NoButton == [shown |-> FALSE, isPresent |-> FALSE, isAbsent |-> FALSE, label |-> "none",
             disabled |-> FALSE]

\* The button renderStudentList writes for a student.
RenderedButton(is_present) ==
    [shown |-> TRUE, isPresent |-> is_present, isAbsent |-> ~is_present,
     label |-> IF is_present THEN "Mark Absent" ELSE "Mark Present", disabled |-> FALSE]

NoButtons == [st \in Listed |-> NoButton]
EmptyContainer == [kind |-> "empty", config |-> "none", buttons |-> NoButtons]
LoadingParagraph == [kind |-> "loading", config |-> "none", buttons |-> NoButtons]
ErrorParagraph == [kind |-> "error", config |-> "none", buttons |-> NoButtons]
NoMatchParagraph == [kind |-> "no_match", config |-> "none", buttons |-> NoButtons]

NoHandler == [set |-> FALSE, config |-> "none", students |-> AllFalse]
NoToggleReply == [reply |-> "none", button |-> NoButton, kept |-> TRUE]

\* Name and enrollment number of the listed students, as code points: one
\* capital letter and one digit each.
StudentName(st) == <<65 + st>>
StudentEnrollmentNo(st) == <<48 + st>>

\* String.prototype.toLowerCase on code points.
ToLowerCase(s) == [i \in DOMAIN s |-> IF s[i] \in 65..90 THEN s[i] + 32 ELSE s[i]]

\* String.prototype.includes.
Includes(s, sub) ==
    \E i \in 0..(Len(s) - Len(sub)) : SubSeq(s, i + 1, i + Len(sub)) = sub

\* What is typed into the search box: nothing, "B", "b", "1", "z".
SearchValues == {<<>>, <<66>>, <<98>>, <<49>>, <<122>>}

\* The filter of the oninput handler.
SearchFilter(value) ==
    {st \in Listed :
        \/ Includes(ToLowerCase(StudentName(st)), ToLowerCase(value))
        \/ Includes(ToLowerCase(StudentEnrollmentNo(st)), ToLowerCase(value))}

ModalInit ==
    /\ title = "none"
    /\ modalOn = FALSE
    /\ container = EmptyContainer
    /\ oninput = NoHandler
    /\ listReqs = EmptyBag
    /\ toggleReqs = EmptyBag
    /\ toggleLast = NoToggleReply
    /\ inputs = 0

\* The page is loaded and nobody is marked present.
ModalQuiet ==
    /\ ModalInit
    /\ attendance = [d \in Dates |-> AllFalse]

\* The buttons of the container leave the document: requests in flight keep
\* their button, which is no longer in the list.
Detach(reqs) ==
    LET D == {[r EXCEPT !.attached = FALSE] : r \in BagToSet(reqs)}
    IN [d \in D |-> CopiesIn(d, reqs) + CopiesIn([d EXCEPT !.attached = TRUE], reqs)]

\* renderStudentList(students, config, container): the content it writes.
renderStudentList(matched, data, config) ==
    IF matched = {}
    THEN NoMatchParagraph
    ELSE [kind |-> "list", config |-> config,
          buttons |-> [st \in Listed |-> IF st \in matched THEN RenderedButton(data[st])
                                                           ELSE NoButton]]

\* The click listener of an edit-day button: setupManagerModal up to its
\* fetch.  The page behind an open modal takes no clicks.
setupManagerModal(config) ==
    /\ page = "report"
    /\ ~modalOn
    /\ inputs < MaxInputs
    /\ inputs' = inputs + 1
    /\ title' = config
    /\ container' = LoadingParagraph
    /\ modalOn' = TRUE
    /\ listReqs' = listReqs (+) SetToBag({config})
    /\ toggleReqs' = Detach(toggleReqs)
    /\ toggleLast' = NoToggleReply
    /\ UNCHANGED <<oninput, attendance>>
    /\ UNCHANGED statusVars
    /\ UNCHANGED <<last, notModal>>

\* The .then callbacks of setupManagerModal for the fetch of one config; a
\* rejected fetch or json() is caught by nobody.
ListReply(config, r) ==
    /\ page = "report"
    /\ BagIn(config, listReqs)
    /\ listReqs' = listReqs (-) SetToBag({config})
    /\ CASE r = "list_success" ->
              /\ container' = renderStudentList(Listed, attendance[config], config)
              /\ oninput' = [set |-> TRUE, config |-> config, students |-> attendance[config]]
              /\ toggleReqs' = Detach(toggleReqs)
         [] r = "list_rejected" ->
              /\ container' = ErrorParagraph
              /\ toggleReqs' = Detach(toggleReqs)
              /\ UNCHANGED oninput
         [] OTHER ->
              UNCHANGED <<container, oninput, toggleReqs>>
    /\ toggleLast' = NoToggleReply
    /\ UNCHANGED <<title, modalOn, attendance, inputs>>
    /\ UNCHANGED statusVars
    /\ UNCHANGED <<last, notModal>>

\* An input event of the search box: the handler installed by the last
\* successful reply renders the students of that reply that match.
SearchInput(value) ==
    /\ page = "report"
    /\ modalOn /\ oninput.set
    /\ inputs < MaxInputs
    /\ inputs' = inputs + 1
    /\ container' = renderStudentList(SearchFilter(value), oninput.students, oninput.config)
    /\ toggleReqs' = Detach(toggleReqs)
    /\ toggleLast' = NoToggleReply
    /\ UNCHANGED <<title, modalOn, oninput, listReqs, attendance>>
    /\ UNCHANGED statusVars
    /\ UNCHANGED <<last, notModal>>

\* A click listener of a toggle button that leaves the button enabled.
ToggleButtonClick_KeepsEnabled(st) ==
    /\ page = "report"
    /\ modalOn /\ container.kind = "list"
    /\ container.buttons[st].shown /\ ~container.buttons[st].disabled
    /\ inputs < MaxInputs
    /\ inputs' = inputs + 1
    /\ toggleReqs' = toggleReqs (+) SetToBag({[student |-> st, config |-> container.config,
                                              wasPresent |-> container.buttons[st].isPresent,
                                              attached |-> TRUE,
                                              button |-> container.buttons[st]]})
    /\ toggleLast' = NoToggleReply
    /\ UNCHANGED <<title, modalOn, container, oninput, listReqs, attendance>>
    /\ UNCHANGED statusVars
    /\ UNCHANGED <<last, notModal>>

\* The click listener of a toggle button up to its await: read the class,
\* disable the button, post the opposite state.  A disabled button takes no
\* click.
ToggleButtonClick(st) ==
    /\ page = "report"
    /\ modalOn /\ container.kind = "list"
    /\ container.buttons[st].shown /\ ~container.buttons[st].disabled
    /\ inputs < MaxInputs
    /\ inputs' = inputs + 1
    /\ container' = [container EXCEPT !.buttons[st].disabled = TRUE]
    /\ toggleReqs' = toggleReqs (+) SetToBag({[student |-> st, config |-> container.config,
                                              wasPresent |-> container.buttons[st].isPresent,
                                              attached |-> TRUE,
                                              button |-> container'.buttons[st]]})
    /\ toggleLast' = NoToggleReply
    /\ UNCHANGED <<title, modalOn, oninput, listReqs, attendance>>
    /\ UNCHANGED statusVars
    /\ UNCHANGED <<last, notModal>>

\* A listener that toggles is-present alone on success.
AfterToggle_OneClass(button, wasPresent, r) ==
    CASE r = "toggle_success" ->
           [button EXCEPT !.isPresent = ~@,
                          !.label = IF wasPresent THEN "Mark Present" ELSE "Mark Absent",
                          !.disabled = FALSE]
      [] r = "toggle_rejected" -> [button EXCEPT !.disabled = FALSE]
      [] OTHER -> button

\* The button after the listener has run to its end on a reply, or has been
\* ended by the rejection of its fetch.
AfterToggle(button, wasPresent, r) ==
    CASE r = "toggle_success" ->
           [button EXCEPT !.isPresent = ~@, !.isAbsent = ~@,
                          !.label = IF wasPresent THEN "Mark Present" ELSE "Mark Absent",
                          !.disabled = FALSE]
      [] r = "toggle_rejected" -> [button EXCEPT !.disabled = FALSE]
      [] OTHER -> button

\* The click listener of a toggle button after its await, for one request.
ToggleButtonReply(req, r) ==
    /\ page = "report"
    /\ BagIn(req, toggleReqs)
    /\ toggleReqs' = toggleReqs (-) SetToBag({req})
    /\ LET before == IF req.attached THEN container.buttons[req.student] ELSE req.button
           after == AfterToggle(before, req.wasPresent, r)
       IN /\ toggleLast' = [reply |-> r, button |-> after,
                            kept |-> /\ after.isPresent = before.isPresent
                                     /\ after.isAbsent = before.isAbsent
                                     /\ after.label = before.label]
          /\ container' = IF req.attached
                          THEN [container EXCEPT !.buttons[req.student] = after]
                          ELSE container
    /\ attendance' = IF r = "toggle_success"
                     THEN [attendance EXCEPT ![req.config][req.student] = ~req.wasPresent]
                     ELSE attendance
    /\ IF r = "toggle_rejected"
       THEN showStatusMessage("update_failed")
       ELSE UNCHANGED statusVars
    /\ UNCHANGED <<title, modalOn, oninput, listReqs, inputs>>
    /\ UNCHANGED <<last, notModal>>

\* A click on the close button of the manager modal or on its backdrop.
CloseManagerModal ==
    /\ page = "report"
    /\ modalOn
    /\ modalOn' = FALSE
    /\ toggleLast' = NoToggleReply
    /\ UNCHANGED <<title, container, oninput, listReqs, toggleReqs, attendance, inputs>>
    /\ UNCHANGED statusVars
    /\ UNCHANGED <<last, notModal>>

\* ---------------------------------------------------------------------------
\* The status message against the clock
\* ---------------------------------------------------------------------------

\* setTimeout(..., 6000)
HideDelay == 6000
\* Timeouts of showStatusMessage pending at a time.
MaxHideTimers == 2

ToastInit ==
    /\ hideDue = {}
    /\ shownAt = 0
    /\ hideLast = [hid |-> FALSE, after |-> 0]

\* showStatusMessage(message, type), called by any handler of the page, with
\* the clock: the timeout it sets is due 6 s later; no timeout is cleared.
ShowStatus(m) ==
    /\ ~unloaded
    /\ Cardinality(hideDue) < MaxHideTimers
    /\ \A t \in hideDue : now < t
    /\ statusVisible' = TRUE
    /\ statusMsg' = m
    /\ hideDue' = hideDue \cup {now + HideDelay}
    /\ hideTimers' = Cardinality(hideDue')
    /\ shownAt' = now
    /\ UNCHANGED hideLast
    /\ UNCHANGED <<now, unloaded, pollVars, lookupVars, countdownVars>>
    /\ UNCHANGED notToast

\* A timeout of showStatusMessage fires: the element is hidden.
HideStatusAt(t) ==
    /\ ~unloaded
    /\ t \in hideDue
    /\ now = t
    /\ hideDue' = hideDue \ {t}
    /\ hideTimers' = Cardinality(hideDue')
    /\ statusVisible' = FALSE
    /\ hideLast' = [hid |-> statusVisible, after |-> IF statusVisible THEN now - shownAt ELSE 0]
    /\ UNCHANGED <<statusMsg, shownAt>>
    /\ UNCHANGED <<now, unloaded, pollVars, lookupVars, countdownVars>>
    /\ UNCHANGED notToast

\* ---------------------------------------------------------------------------
\* Specifications
\* ---------------------------------------------------------------------------

\* Nothing of the manager modal and no timed status message.
DetailQuiet == ModalQuiet /\ ToastInit

\* No page is open.
UiIdle ==
    /\ statusVisible = FALSE
    /\ statusMsg = "none"
    /\ hideTimers = 0
    /\ last = [trig |-> "init", ev |-> "load", sent |-> {}, shown |-> "none"]
    /\ pc = "idle"
    /\ path = "none"
    /\ markDisabled = FALSE
    /\ spinner = FALSE
    /\ markText = "Mark My Attendance"
    /\ formVisible = TRUE
    /\ tipsVisible = FALSE
    /\ wifiModalOpen = FALSE
    /\ bodyModalOpen = FALSE
    /\ geoSupported = TRUE
    /\ nGps = 0
    /\ nGoogle = 0
    /\ nRetry = 0
    /\ hist = NoAttempt
    /\ sessionActive = FALSE
    /\ startDisabled = FALSE
    /\ startText = "Start New Session"
    /\ startInFlight = FALSE
    /\ endDisabled = FALSE
    /\ endInFlight = FALSE
    /\ MgrInit
    /\ ReportInit

\* No page of the latest frontend is loaded.
UiQuiet == page = "none" /\ apiKey = "set" /\ UiIdle

\* No device is submitting.
FpQuiet ==
    /\ env = CHOOSE e \in Envs : e.timezoneOffset < 0
    /\ enrollment = "Y24120001"
    /\ sessionId = 1
    /\ posted = {}

\* The database right after the setup script, nothing else running.
InitDb == DbInit /\ UiQuiet /\ LegacyInit /\ FpQuiet /\ TimedQuiet /\ SetupInit /\ DetailQuiet

\* Statements against attendance_records and the tables it references.
RecordsNext ==
    \/ InsertSession
    \/ \E s \in 1..MaxSessions : DeleteSession(s)
    \/ \E st \in StudentIds : DeleteStudent(st)
    \/ \E s \in SessionKeys, st \in StudentKeys : InsertRecord(s, st)
    \/ \E r \in DOMAIN records : DeleteRecord(r)

SpecRecords == InitDb /\ [][RecordsNext]_vars

\* Statements against session_device_fingerprints and the tables it references.
FingerprintsNext ==
    \/ InsertSession
    \/ \E s \in 1..MaxSessions : DeleteSession(s)
    \/ \E st \in StudentIds : DeleteStudent(st)
    \/ \E s \in SessionKeys, st \in StudentKeys, f \in Fingerprints :
          InsertFingerprint(s, st, f)
    \/ \E r \in DOMAIN fps : DeleteFingerprint(r)

SpecFingerprints == InitDb /\ [][FingerprintsNext]_vars

\* One page of the frontend in one browser tab, right after DOMContentLoaded.
InitPages ==
    /\ DbInit /\ LegacyInit /\ FpQuiet /\ TimedQuiet /\ SetupInit /\ DetailQuiet
    /\ page \in {"student", "dashboard", "report"}
    /\ StatusInit
    /\ bodyModalOpen = FALSE
    /\ StudentInit
    /\ DashInit
    /\ MgrInit
    /\ ReportInit
    /\ page = "student" => ~sessionActive
    /\ page = "report" => ~sessionActive
    /\ page # "student" => geoSupported /\ apiKey = "set"

PagesNext ==
    \/ Submit
    \/ \E p \in Positions : GpsOk(p)
    \/ \E e \in GpsErrors : GpsError(e)
    \/ FingerprintOk
    \/ FingerprintError
    \/ \E r \in PostReplies : PostReply(r)
    \/ RetryClick
    \/ \E reply \in GoogleReplies : GoogleReply(reply)
    \/ DismissModal
    \/ PollTick
    \/ StartClick
    \/ \E r \in StartReplies : StartReply(r)
    \/ EndClick
    \/ \E r \in EndReplies : EndReply(r)
    \/ OpenManager
    \/ \E r \in ListReplies, data \in [Listed -> BOOLEAN] : ManagerReply(r, data)
    \/ CloseManager
    \/ \E st \in Listed : ToggleClick(st)
    \/ \E st \in Listed, r \in ToggleReplies : ToggleReply(st, r)
    \/ \E r \in ToggleReplies : DetachedToggleReply(r)
    \/ \E d \in Dates : DeleteDayClick(d)
    \/ ConfirmDeleteClick
    \/ \E r \in DeleteReplies : DeleteReply(r)
    \/ DismissDeleteModal
    \/ HideStatus

SpecPages == InitPages /\ [][PagesNext]_vars

\* The student page of one of the two earlier frontends.
InitLegacy ==
    /\ DbInit /\ UiIdle /\ LegacyInit /\ FpQuiet /\ TimedQuiet /\ SetupInit /\ DetailQuiet
    /\ page \in {"student_v1", "student_v2"}
    /\ apiKey \in {"missing", "set"}
    /\ page = "student_v2" => apiKey = "set"

SpecLegacy == InitLegacy /\ [][LegacyNext]_vars

\* The form data one page sends, as the browser and the input change.
InitDevice == DbInit /\ UiQuiet /\ LegacyInit /\ FpInit /\ TimedQuiet /\ SetupInit /\ DetailQuiet

SpecDevice == InitDevice /\ [][DeviceNext]_vars

\* The student page with its form, with or without an active session, and
\* nobody submitting.
StudentPageQuiet ==
    /\ DbInit /\ LegacyInit /\ SetupInit /\ DetailQuiet
    /\ page = "student"
    /\ StatusInit
    /\ bodyModalOpen = FALSE
    /\ StudentInit
    /\ geoSupported /\ apiKey = "set"
    /\ DashInit /\ ~sessionActive
    /\ MgrInit
    /\ ReportInit
    /\ env = CHOOSE e \in Envs : e.timezoneOffset < 0
    /\ enrollment = "Y24120001"
    /\ sessionId \in {NULL, 1}
    /\ posted = {}
    /\ ClockInit

\* The live list of the student page.
InitPoll == StudentPageQuiet /\ PollInit /\ LookupInit /\ CountdownQuiet

PollNext ==
    \/ Advance(PollInterval \div 2, MaxPolls * PollInterval)
    \/ PollFire
    \/ \E id \in pollFetches, r \in PresentReplies : PresentReply(id, r)
    \/ Unload

SpecPoll == InitPoll /\ [][PollNext]_vars

\* The name lookup of the student page.
InitLookup == StudentPageQuiet /\ PollQuiet /\ LookupInit /\ CountdownQuiet

LookupNext ==
    \/ Advance(DebounceDelay \div 2, MaxDelays * DebounceDelay)
    \/ \E v \in InputValues : InputEvent(v)
    \/ \E t \in pending : LookupFire(t)
    \/ \E n \in BagToSet(lookups), r \in LookupReplies : LookupReply(n, r)
    \/ Unload

SpecLookup == InitLookup /\ [][LookupNext]_vars

\* The countdown of a page with an active session.
InitCountdown == StudentPageQuiet /\ PollQuiet /\ LookupInit /\ CountdownInit

CountdownNext ==
    \/ Advance(TickInterval, (MaxSeconds + 1) * TickInterval)
    \/ TimerTick
    \/ Unload

SpecCountdown == InitCountdown /\ [][CountdownNext]_vars

\* The first seconds of the countdown of a session with up to MaxMinutes
\* left, in a tab that may be throttled.
InitTimerText == StudentPageQuiet /\ PollQuiet /\ LookupInit /\ LongCountdownInit

TimerTextNext ==
    \/ Advance(TickInterval, (MaxSeconds + 1) * TickInterval)
    \/ \E d \in SleepTimes : Sleep(d, (MaxSeconds + 1) * TickInterval)
    \/ TimerTick
    \/ Unload

SpecTimerText == InitTimerText /\ [][TimerTextNext]_vars

\* Statements against users and students.
InitSetup == DbInit /\ UiQuiet /\ LegacyInit /\ FpQuiet /\ TimedQuiet /\ SetupInit /\ DetailQuiet

SetupNext ==
    \/ \E v \in UserInserts, c \in BOOLEAN : InsertUser(v, c)
    \/ \E v \in StudentInserts, c \in BOOLEAN : InsertStudent(v, c)
    \/ \E r \in DOMAIN studentRows : DeleteStudentRow(r)
    \/ RunSetupScript

SpecSetup == InitSetup /\ [][SetupNext]_vars

\* The status message of a page, against the clock.
InitStatus ==
    /\ DbInit /\ UiQuiet /\ LegacyInit /\ FpQuiet /\ TimedQuiet /\ SetupInit
    /\ ModalQuiet /\ ToastInit

StatusNext ==
    \/ Advance(HideDelay \div 3, MaxDelays * HideDelay)
    \/ \E m \in {"server", "update_failed"} : ShowStatus(m)
    \/ \E t \in hideDue : HideStatusAt(t)

SpecStatus == InitStatus /\ [][StatusNext]_vars

\* The report page with its manager modal, element by element.
InitManager ==
    /\ DbInit /\ UiIdle /\ LegacyInit /\ FpQuiet /\ TimedQuiet /\ SetupInit
    /\ page = "report" /\ apiKey = "set"
    /\ ModalQuiet /\ ToastInit

ManagerNext ==
    \/ \E d \in Dates : setupManagerModal(d)
    \/ \E d \in Dates, r \in ListReplies : ListReply(d, r)
    \/ \E v \in SearchValues : SearchInput(v)
    \/ \E st \in Listed : ToggleButtonClick(st)
    \/ \E req \in BagToSet(toggleReqs), r \in ToggleReplies : ToggleButtonReply(req, r)
    \/ CloseManagerModal
    \/ HideStatus

SpecManager == InitManager /\ [][ManagerNext]_vars

\* ---------------------------------------------------------------------------
\* Properties of the schema
\* ---------------------------------------------------------------------------

\* C1: in attendance_records no two rows name the same session and the same
\* student, whatever inserts and deletes were made; an insert for a (session,
\* student) pair that already has a row is rejected with a unique violation
\* and leaves the table as it was.
C1_RecordsUniquePerSessionStudent ==
    /\ \A r \in DOMAIN records :
          (r.session_id # NULL /\ r.student_id # NULL) => records[r] = 1
    /\ (dbLast.op = "insert_record" /\ dbLast.pair)
          => (dbLast.res = "unique_violation" /\ ~dbLast.changed)

\* Two pairs have a row each and an insert for a pair that has one was just
\* rejected.
C1_Witness ==
    /\ dbLast.op = "insert_record" /\ dbLast.pair /\ dbLast.res = "unique_violation"
    /\ \E r1, r2 \in DOMAIN records :
           /\ r1 # r2
           /\ r1.session_id # NULL /\ r1.student_id # NULL
           /\ r2.session_id # NULL /\ r2.student_id # NULL

\* C2: in session_device_fingerprints no two rows of one session carry the
\* same fingerprint; an insert of a fingerprint the session already holds for
\* another student is rejected and changes nothing; an insert for an existing
\* session and student is accepted when that session holds no row of the
\* student or of the fingerprint, whatever other sessions hold.
C2_FingerprintOncePerSession ==
    /\ \A r1, r2 \in DOMAIN fps :
          (SqlEq(r1.session_id, r2.session_id) /\ r1.fingerprint = r2.fingerprint)
              => (r1 = r2 /\ fps[r1] = 1)
    /\ (dbLast.op = "insert_fp" /\ dbLast.device)
          => /\ dbLast.res \in {"unique_violation_student", "unique_violation_fingerprint"}
             /\ ~dbLast.changed
    /\ (dbLast.op = "insert_fp" /\ dbLast.clear)
          => (dbLast.res = "ok" /\ dbLast.changed)

\* One fingerprint is recorded for students of two sessions, and its insert
\* for another student of one of them was just rejected by the index on
\* (session_id, fingerprint) alone.
C2_Witness ==
    /\ dbLast.op = "insert_fp" /\ dbLast.device /\ ~dbLast.pair
    /\ dbLast.res = "unique_violation_fingerprint"
    /\ \E r1, r2 \in DOMAIN fps : /\ r1.fingerprint = r2.fingerprint
                                  /\ r1.session_id # NULL /\ r2.session_id # NULL
                                  /\ r1.session_id # r2.session_id
                                  /\ r1.student_id # NULL /\ r2.student_id # NULL

\* C3: in session_device_fingerprints a student has at most one row per
\* session; a second insert for the same (session_id, student_id) is rejected
\* and leaves the table as it was, whether it carries the recorded fingerprint
\* or another one.
C3_OneFingerprintPerStudent ==
    /\ \A r1, r2 \in DOMAIN fps :
          (SqlEq(r1.session_id, r2.session_id) /\ SqlEq(r1.student_id, r2.student_id))
              => (r1 = r2 /\ fps[r1] = 1)
    /\ (dbLast.op = "insert_fp" /\ dbLast.pair)
          => (dbLast.res = "unique_violation_student" /\ ~dbLast.changed)

\* An insert was just rejected by the index on (session_id, student_id), in a
\* table where the session of a row has not seen one of the fingerprints.
C3_Witness ==
    /\ dbLast.op = "insert_fp" /\ dbLast.pair /\ ~dbLast.device
    /\ dbLast.res = "unique_violation_student"
    /\ \E r \in DOMAIN fps :
           /\ r.session_id # NULL /\ r.student_id # NULL
           /\ \E f \in Fingerprints :
                 \A q \in DOMAIN fps : q.session_id = r.session_id => q.fingerprint # f

\* ---------------------------------------------------------------------------
\* Properties of the student page and of the other pages
\* ---------------------------------------------------------------------------

C5_NeverStuck ==
    page = "student" => ~(formVisible /\ markDisabled /\ pc = "idle" /\ ~wifiModalOpen)

\* The failures the sentence on status messages lists.
FailureEvents ==
    {"gps_denied", "gps_timeout"} \cup GoogleErrors
        \cup {"post_network_error", "post_rejected", "post_rejected_away",
              "start_network_error", "start_rejected",
              "end_network_error", "end_rejected",
              "toggle_network_error", "toggle_rejected",
              "delete_network_error", "delete_rejected"}

\* C6, as stated: the step that handles a failure of a user-initiated action
\* displays a status message.
C6_FailureShowsMessage ==
    last.ev \in FailureEvents => (last.shown # "none" /\ statusVisible)

\* The location requests of the student page.
LocationRequests == {"GPS", "Google geolocate"}

\* C7, as stated: between two submits the browser position is requested at
\* most once and the Google geolocation API at most once.
C7_OneGoogleRequestPerSubmit ==
    page = "student" => (nGps <= 1 /\ nGoogle <= 1)

\* C7, as the code has it: after a submit the browser position is requested
\* at most once (once where navigator.geolocation exists); the Google API is
\* requested only by a click on the retry button of the prompt modal, at most
\* once per click, and a second time within one submission only after the
\* server answered 'retry_high_accuracy'; a location request is made by no
\* step other than a submit or a retry click.
C7_LocationRequestsPerAction ==
    page = "student" =>
        /\ nGps <= 1
        /\ (path # "none" /\ geoSupported) => nGps = 1
        /\ nGoogle <= nRetry
        /\ nGoogle <= 1 + hist.retryReply
        /\ hist.actLoc <= 1
        /\ \A q \in last.sent \cap LocationRequests :
              /\ last.sent = {q}
              /\ last.trig = "user"
              /\ last.ev = (IF q = "GPS" THEN "submit" ELSE "retry_click")

\* The Google API is being asked a second time since the submit.
C7_Witness ==
    page = "student" /\ nGps = 1 /\ nGoogle = 2 /\ pc = "google" /\ hist.retryReply >= 1

\* Every failure a handler of the pages can meet.
AllFailureEvents ==
    FailureEvents \cup {"gps_unavailable", "gps_unsupported", "fingerprint_error",
                        "google_config_error", "list_network_error", "list_rejected"}

\* The requests a user action sends.
UserRequests ==
    LocationRequests \cup {"POST mark_attendance", "POST start_session", "POST end_session",
                           "POST toggle_attendance", "DELETE delete_day"}

\* C8: no request is retried: a step that handles a failure sends no request;
\* a timer-driven step sends nothing but the present-list poll; a location,
\* start, end, toggle or delete request is sent by the step of a user click or
\* submit, the POST of mark_attendance by the continuation of that handler once
\* location and fingerprint are known, and one click or submit sends at most
\* one location request and at most one POST.
C8_NoAutomaticRetry ==
    /\ last.ev \in AllFailureEvents => last.sent \cap UserRequests = {}
    /\ last.trig = "timer" => last.sent \subseteq {"GET present"}
    /\ \A q \in last.sent \cap UserRequests :
          IF q = "POST mark_attendance"
          THEN last.ev = "fingerprint_ok" /\ path \in {"gps", "google"}
          ELSE last.trig = "user"
    /\ Cardinality(last.sent \cap UserRequests) <= 1
    /\ hist.actLoc <= 1 /\ hist.actPost <= 1

\* The fetch of the POST has just been rejected, after a retry click, and the
\* handler has sent nothing.
C8_Witness ==
    /\ page = "student" /\ last.ev = "post_network_error" /\ last.sent = {}
    /\ nRetry = 1 /\ hist.actPost = 1 /\ pc = "idle"

\* ---------------------------------------------------------------------------
\* Properties of the two-stage getAccurateLocation
\* ---------------------------------------------------------------------------

\* C9, as stated: the first, low-accuracy fix is handed to the success
\* callback when its accuracy does not exceed the threshold, and the
\* high-accuracy watch is started exactly when it exceeds the threshold.
C9_ThresholdInclusive ==
    last.ev = "first_fix" =>
        /\ firstAcc <= AccuracyThreshold
              => (delivered = [src |-> "first", accuracy |-> firstAcc] /\ ~watchOn)
        /\ watchOn <=> firstAcc > AccuracyThreshold

\* C9, as the code has it: a submit requests a low-accuracy position first;
\* its fix is handed to the success callback, and the POST sent, when its
\* accuracy is below 150 m; the high-accuracy watch is started, and nothing
\* handed over, exactly when the accuracy is 150 m or more.
C9_ThresholdStrict ==
    /\ last.ev = "legacy_submit" => (last.sent = {"GPS low accuracy"} /\ locPc = "first")
    /\ last.ev = "first_fix" =>
          IF firstAcc < AccuracyThreshold
          THEN /\ delivered = [src |-> "first", accuracy |-> firstAcc]
               /\ ~watchOn
               /\ last.sent = {"POST mark_attendance"}
          ELSE /\ delivered = NoPosition
               /\ watchOn
               /\ last.sent = {"GPS high accuracy watch"}

\* The first fix has an accuracy of exactly 150 m and the watch is started.
C9_Witness ==
    last.ev = "first_fix" /\ firstAcc = AccuracyThreshold /\ watchOn /\ locPc = "watch"

\* ---------------------------------------------------------------------------
\* Properties of the device fingerprint
\* ---------------------------------------------------------------------------

C12_OneLookupPerBurst ==
    (~unloaded /\ burst.seen /\ burst.fired > 0) => burst.sent = 1

\* C12: a burst of input events, each less than the debounce delay after the
\* one before, has one callback: it is pending, due one delay after the last
\* event, and nothing was looked up yet; or it has run once, and then it sent
\* one lookup if the trimmed final value of the input has five characters or
\* more and none otherwise, the lookup was sent no earlier than one delay
\* after the last event, and it asked for the trimmed final value.
C12_OneCallbackPerBurst ==
    (~unloaded /\ burst.seen) =>
        \/ /\ pending = {timeout}
           /\ timeout = burst.lastAt + DebounceDelay
           /\ burst.fired = 0
           /\ burst.sent = 0
        \/ /\ pending = {}
           /\ burst.fired = 1
           /\ burst.sent = IF Len(Trim(inputValue)) >= MinLookupLength THEN 1 ELSE 0
           /\ burst.sent = 1 =>
                  /\ burst.url = Trim(inputValue)
                  /\ burst.at >= burst.lastAt + DebounceDelay

\* A burst of several events whose final value has blanks around an
\* enrollment number of five characters has caused its lookup.
C12_Witness ==
    /\ burst.many
    /\ burst.fired = 1
    /\ burst.sent = 1
    /\ burst.url # inputValue
    /\ burst.lastAt > 0

\* C13: the countdown finds the remaining time <= 0 at one tick at most; that
\* tick wrote 'Session Ended' and cleared the interval, the timer has not
\* written the text since, and a reload was requested once at most (only
\* when the attendance form is in the document).
C13_TimerStopsAtExpiry ==
    /\ expiry.ticks <= 1
    /\ expiry.reloads <= 1
    /\ ~expiry.late
    /\ expiry.ticks = 1 =>
           /\ ~timerOn
           /\ timerText = SessionEnded
           /\ expiry.reloads = IF formInDocument THEN 1 ELSE 0

\* The countdown ran, expired at a tick more than a second ago and asked
\* for the reload; the page is still there.
C13_Witness ==
    /\ expiry.ticks = 1
    /\ expiry.reloads = 1
    /\ ~unloaded
    /\ endTime > TickInterval
    /\ now > endTime + TickInterval

\* ---------------------------------------------------------------------------
\* Properties of users and students
\* ---------------------------------------------------------------------------

\* C15 as stated: users holds exactly one row, and its role is 'controller'.
C15_SingleController ==
    /\ BagCardinality(users) = 1
    /\ \A r \in DOMAIN users : r.role = "controller"

\* C16: no two rows of students have the same enrollment_no; an INSERT with
\* ON CONFLICT (enrollment_no) DO NOTHING for an enrollment number that has a
\* row is skipped without an error and leaves the table as it was, and one
\* without the clause is refused.
C16_EnrollmentUnique ==
    /\ \A r \in DOMAIN studentRows :
           /\ studentRows[r] = 1
           /\ \A q \in DOMAIN studentRows : q.enrollment_no = r.enrollment_no => q = r
    /\ (setupLast.op = "seed_student" /\ setupLast.conflict) =>
           setupLast.res = "skipped" /\ ~setupLast.changed
    /\ (setupLast.op = "insert_student" /\ setupLast.conflict) =>
           setupLast.res = "unique_violation" /\ ~setupLast.changed

\* The seed statement met a row of the same enrollment number under another
\* name while the table had room.
C16_Witness ==
    /\ setupLast.op = "seed_student"
    /\ setupLast.conflict
    /\ BagCardinality(studentRows) < MaxRows
    /\ \E r \in DOMAIN studentRows : r \notin SeedStudents

\* ---------------------------------------------------------------------------
\* Properties of the pages, continued
\* ---------------------------------------------------------------------------

\* C14 as stated: a control of the controller pages is disabled only while
\* its request awaits the reply (after every outcome it is enabled again or
\* the page has been reloaded).
C14_ControlsRecover ==
    /\ startDisabled => startInFlight
    /\ endDisabled => endInFlight
    /\ \A st \in Listed : btnDisabled[st] => tgInFlight[st] # "none"
    /\ delDisabled => delInFlight # "none"

\* C17 as stated: a failure after the GPS fix - getDeviceFingerprint rejects,
\* the fetch of the POST rejects or its body cannot be parsed - does not show
\* 'GPS failed' and does not leave the Wi-Fi prompt open.
C17_PromptOnlyOnGpsFailure ==
    (page = "student" /\ last.ev \in {"fingerprint_error", "post_network_error"}) =>
        /\ last.shown # "gps_failed"
        /\ ~wifiModalOpen

\* C18: a handler that has sent its POST had asked for one location and got
\* it, and the POST carries the latitude and longitude of that position,
\* with location_method 'gps' for a position of the browser and 'google' for
\* one of the Google API; a handler awaits the fingerprint or the reply only
\* with a position.
C18_PostCarriesResolvedLocation ==
    /\ (page = "student" /\ hist.actPost > 0) =>
           /\ hist.actLoc = 1
           /\ hist.position.src \in {"browser", "google_api"}
           /\ hist.posted.latitude = hist.position.latitude
           /\ hist.posted.longitude = hist.position.longitude
           /\ hist.posted.location_method =
                  IF hist.position.src = "browser" THEN "gps" ELSE "google"
    /\ pc \in {"fp", "post"} => hist.position.src # "none"
    /\ pc = "post" => hist.actPost = 1

\* A POST with a position of the Google API is awaiting its reply, after a
\* submit whose browser position had been posted too.
C18_Witness ==
    /\ pc = "post"
    /\ hist.position.src = "google_api"
    /\ hist.posted.location_method = "google"
    /\ hist.retryReply = 1

\* C19: while a submit or retry handler is running the mark button is
\* disabled, no handler starts while another runs, and a handler sends one
\* POST at most, so no two POSTs are in flight.
C19_OneSubmissionAtATime ==
    /\ pc # "idle" => markDisabled
    /\ ~hist.overlap
    /\ hist.actPost <= 1
    /\ hist.actPost = 1 => hist.actLoc = 1

\* The POST of a retry is in flight, the form is displayed and the button
\* disabled.
C19_Witness ==
    /\ pc = "post"
    /\ path = "google"
    /\ formVisible
    /\ markDisabled

\* C20: once the server has confirmed a mark the form is hidden, no handler
\* runs and the page has sent no POST since; the form is hidden by nothing else.
C20_NoPostAfterConfirmation ==
    /\ hist.confirmed => ~formVisible /\ pc = "idle"
    /\ ~hist.postAfter
    /\ ~formVisible => hist.confirmed

\* The mark was confirmed and the page went on polling the live list.
C20_Witness ==
    /\ hist.confirmed
    /\ ~formVisible
    /\ last.ev = "poll"


\* C21: each call of getAccurateLocation invokes exactly one of
\* successCallback and errorCallback, exactly once: none while the call is
\* waiting for a fix or a reply, successCallback alone while the POST it
\* sends is in flight, one of the two once the page is idle again, and in
\* the browser version no watch is registered once a callback has run.
C21_OneCallbackPerCall ==
    /\ calls.success + calls.error <= 1
    /\ locPc \in {"first", "watch", "google"} => calls.success + calls.error = 0
    /\ locPc = "post" => calls.success = 1 /\ calls.error = 0
    /\ locPc = "idle" /\ calls.made => calls.success + calls.error = 1
    /\ calls.success + calls.error > 0 => ~watchOn

\* An inaccurate first fix was followed by a watch fix, whose POST was answered.
C21_Witness ==
    /\ calls = [made |-> TRUE, success |-> 1, error |-> 0]
    /\ delivered.src = "watch"
    /\ firstAcc >= AccuracyThreshold
    /\ locPc = "idle"


RequestsOfButton(st) == {r \in BagToSet(toggleReqs) : r.attached /\ r.student = st}

\* C23: at most one toggle request per toggle button is in flight, and the
\* button is disabled for as long as its request is.
C23_OneToggleInFlight ==
    \A st \in Listed :
        /\ Cardinality(RequestsOfButton(st)) <= 1
        /\ \A r \in RequestsOfButton(st) :
               /\ CopiesIn(r, toggleReqs) = 1
               /\ container.kind = "list"
               /\ container.buttons[st].shown /\ container.buttons[st].disabled

\* A toggle button has been clicked and waits, disabled, for its reply.
C23_Witness ==
    \E st \in Listed :
        /\ modalOn /\ container.kind = "list"
        /\ container.buttons[st].disabled
        /\ RequestsOfButton(st) # {}

\* C24: the presence state the manager modal shows for a student equals the
\* state the server last confirmed for that student on the date of the list.
C24_ShownIsConfirmed ==
    container.kind = "list" =>
        \A st \in Listed :
            container.buttons[st].shown =>
                container.buttons[st].isPresent = attendance[container.config][st]

\* A toggle button has one of the two classes and the label that goes with it.
WellFormedButton(b) ==
    /\ b.isPresent # b.isAbsent
    /\ b.label = (IF b.isPresent THEN "Mark Absent" ELSE "Mark Present")

\* C25: every toggle button, in the list or removed from it with its request
\* in flight, has exactly one of is-present and is-absent and is labelled
\* 'Mark Absent' exactly when it has is-present; a success=false reply
\* changes neither class nor label.
C25_ClassMatchesLabel ==
    /\ \A st \in Listed : container.buttons[st].shown => WellFormedButton(container.buttons[st])
    /\ \A r \in BagToSet(toggleReqs) : WellFormedButton(r.button)
    /\ toggleLast.reply # "none" => WellFormedButton(toggleLast.button)
    /\ toggleLast.reply = "toggle_rejected" => toggleLast.kept

\* A success=false reply has reached a button that an earlier reply had
\* switched to is-present.
C25_Witness ==
    /\ toggleLast.reply = "toggle_rejected"
    /\ toggleLast.button.isPresent
    /\ toggleLast.button.label = "Mark Absent"

\* C26: once every fetch of the student list has been answered, the list
\* displayed, and the config its toggle buttons use, is that of the date in
\* the title.
C26_ListOfLatestTarget ==
    listReqs = EmptyBag /\ container.kind = "list" => container.config = title


\* C27: the rows removed from the report table are the rows of the days
\* whose records the server has deleted, and no other.
C27_RemovedRowIsDeletedDay == Dates \ rows = deletedDays


\* C28: once the debounce has run and every lookup has been answered, a
\* lookup result on display is the result for the enrollment number in the
\* input, and no result is on display for an input of fewer than 5 characters.
C28_DisplayMatchesInput ==
    (~unloaded /\ pending = {} /\ lookups = EmptyBag
       /\ nameDisplay \in {"Name: ...", "Student not found."})
    => /\ Len(Trim(inputValue)) >= MinLookupLength
       /\ displayOf = Trim(inputValue)


\* C29: the present-student list on display is the one of the latest fetch
\* that was answered with a list.
C29_ListOfLatestFetch == pollLast.shownOf = pollLast.newest


\* C30: a status message that a timeout hides has been on display for the
\* full 6 seconds.
C30_VisibleSixSeconds == hideLast.hid => hideLast.after >= HideDelay

\* C31: document.body carries the class modal-open exactly when at least one
\* of the modals of the page is displayed.
C31_ClassIffModalDisplayed ==
    bodyModalOpen <=> (wifiModalOpen \/ mgrOpen \/ delModalOpen)

\* A number below 100 written with two digits.
TwoDigits(n) == <<48 + (n \div 10), 48 + (n % 10)>>

\* C32: a tick that finds r > 0 ms remaining writes '<m>m <ss>s' with
\* m = floor(r / 60000) and ss = floor((r mod 60000) / 1000) in two digits,
\* so 0 <= ss <= 59 and 60 * m + ss = floor(r / 1000); r is the end time less
\* the clock at the tick, however many ticks ran before or were missed.
C32_TextOfRemaining ==
    LET r == endTime - expiry.at
    IN  (expiry.run > 0 /\ r > 0) =>
            \E m \in 0..MaxMinutes, ss \in 0..59 :
                /\ timerText = Digits(m) \o <<109, 32>> \o TwoDigits(ss) \o <<115>>
                /\ m = r \div 60000
                /\ ss = (r % 60000) \div 1000
                /\ 60 * m + ss = r \div 1000

\* After missed ticks a tick between two whole seconds wrote a text with a
\* minute and a one-digit number of seconds.
C32_Witness ==
    LET r == endTime - expiry.at
    IN  /\ expiry.run >= 2
        /\ expiry.at > (expiry.run + 1) * TickInterval
        /\ expiry.at = now
        /\ r >= 60000
        /\ r % TickInterval # 0
        /\ (r % 60000) \div 1000 \in 1..9
        /\ timerText = TimerFormat(r)

\* C33: a further run of the setup script ends without an error and leaves
\* what the first run left: one user 'controller', one class 'BA - AIH', and
\* each seeded enrollment number in one row.
C33_SetupRepeatable ==
    setupLast.op = "setup_again" =>
        /\ setupLast.res = "ok"
        /\ users = SetupScript(NoTables).users
        /\ studentRows = SetupScript(NoTables).students
        /\ classRows = SetupScript(NoTables).classes
        /\ BagCardinality(users) = 1
        /\ \A r \in DOMAIN users : r.username = "controller"
        /\ BagCardinality(classRows) = 1
        /\ \A r \in DOMAIN classRows : r.class_name = "BA - AIH"
        /\ \A v \in SeedStudents :
               BagCardinality([r \in {q \in DOMAIN studentRows :
                                          q.enrollment_no = v.enrollment_no}
                                  |-> studentRows[r]]) = 1

\* The script ran again on tables that no longer held what it had left.
C33_Witness ==
    /\ setupLast.op = "setup_again"
    /\ setupLast.changed
    /\ BagCardinality(users) = 1

\* C34 as stated: the class 'BA - AIH' has a geofence radius of 50 metres.
C34_RadiusFifty ==
    \A r \in DOMAIN classRows : r.class_name = "BA - AIH" => r.geofence_radius = 50

==============================================================================
